---- MODULE Spec2Model ----
(***************************************************************************)
(* A model of the URI authority parser of chat/http: the character-class   *)
(* tables, the percent-encoding decoder, the IPv4 and IPv6 literal         *)
(* validators and Authority::parse.                                        *)
(*                                                                         *)
(* A character is its Unicode code point (a natural number), a byte is a   *)
(* number in 0..255, a text is a sequence of characters.  Option values    *)
(* are tuples: None is <<>> and Some(x) is <<x>>.                          *)
(*                                                                         *)
(* Every scanner is a state machine that reads its text one character at a *)
(* time; `text` is the part of the input read so far.  The same transition *)
(* operators, folded over a whole text, give the validators as functions   *)
(* (validate_ipv4_address, validate_ipv6_address, decode_element), which   *)
(* is how one component calls another.                                     *)
(***************************************************************************)
EXTENDS Integers, Sequences, FiniteSets, TLC

VARIABLES
    text,      \* the input text read so far
    ipv4,      \* uri/ipv4.rs  State (tag and Shared fields)
    ipv6,      \* uri/ipv6.rs  State (tag and Shared fields)
    auth,      \* uri/authority.rs State (tag and Shared fields) and parse's locals
    result,    \* the value returned by the function under check, once it returned
    codec,     \* uri/codec.rs: the arguments of encode_element / decode_element
    tables,    \* chars_sets.rs: the LazyLock cells and the threads that use them
    shared     \* observer/shared.rs: the handles to one Arc<RwLock<T>>

vars == <<text, ipv4, ipv6, auth, result, codec, tables, shared>>

(***************************************************************************)
(* Bounds of the model.                                                    *)
(***************************************************************************)
\* longest text given to validate_ipv4_address
MaxIpv4Len == 10
\* number of leading "1:" groups of an IPv6 text
MaxFill == 8
\* number of characters of an IPv6 text after its leading "1:" groups
MaxFree == 7
\* longest text given to Authority::parse
MaxAuthLen == 7
\* longest userinfo text of an authority
MaxUserinfoLen == 3
\* longest text of digits and dots given to Authority::parse
MaxDottedLen == 6
\* longest text given to Authority::parse as a whole
MaxAuthFnLen == 5
\* most membership tests of one thread
MaxTableUses == 3
\* longest byte sequence given to encode_element
MaxElementLen == 3

(***************************************************************************)
(* Characters.                                                             *)
(***************************************************************************)
None == <<>>
Some(x) == <<x>>

ChPercent == 37
ChPlus == 43
ChMinus == 45
ChDot == 46
ChColon == 58
ChAt == 64
ChLBracket == 91
ChRBracket == 93
ChLowerV == 118

Contains(t, c) == \E i \in 1..Len(t) : t[i] = c

\* str::find(c) on a text that contains c, 1-based
FirstIndex(t, c) ==
    CHOOSE i \in 1..Len(t) : t[i] = c /\ \A j \in 1..(i - 1) : t[j] # c

\* char::len_utf8: the bytes a character takes in a str
utf8_len(c) ==
    IF c < 128 THEN 1 ELSE IF c < 2048 THEN 2 ELSE IF c < 65536 THEN 3 ELSE 4

\* the 0-based byte offset of the character at 1-based position pos, as
\* char_indices and find give it; at Len(t) + 1 the length of the str
RECURSIVE byte_offset(_, _)
byte_offset(t, pos) ==
    IF pos <= 1 THEN 0 ELSE byte_offset(t, pos - 1) + utf8_len(t[pos - 1])

\* str::is_char_boundary: &t[b..] panics when it does not hold
is_char_boundary(t, b) == \E pos \in 1..(Len(t) + 1) : byte_offset(t, pos) = b

\* the position of the character at a byte offset that is a boundary
char_position(t, b) == CHOOSE pos \in 1..(Len(t) + 1) : byte_offset(t, pos) = b

\* chars_sets.rs
ALPHA == (97..122) \cup (65..90)
DIGIT == 48..57
HEXDIG == DIGIT \cup (65..70) \cup (97..102)
UNRESERVED == ALPHA \cup DIGIT \cup {45, 46, 95, 126}
SUB_DELIMS == {33, 36, 38, 39, 40, 41, 42, 43, 44, 59, 61}
USER_INFO_NOT_PCT_ENCODED == UNRESERVED \cup SUB_DELIMS \cup {58}
\* faulty variant: the table has a character above U+00FF
Mut_REG_NAME_NOT_PCT_ENCODED_wide == UNRESERVED \cup SUB_DELIMS \cup {955}

REG_NAME_NOT_PCT_ENCODED == UNRESERVED \cup SUB_DELIMS
IPV_FUTURE_LAST_PART == UNRESERVED \cup SUB_DELIMS \cup {58}

(***************************************************************************)
(* str::parse::<u8>() and str::parse::<u16>(): an optional '+', then       *)
(* decimal digits accumulated with checked arithmetic.                     *)
(***************************************************************************)
ParseOk(v) == [ok |-> TRUE, val |-> v, kind |-> "none"]
ParseErr(k) == [ok |-> FALSE, val |-> 0, kind |-> k]

RECURSIVE ParseDigits(_, _, _)
ParseDigits(digits, acc, max) ==
    IF digits = <<>> THEN ParseOk(acc)
    ELSE IF Head(digits) \notin DIGIT THEN ParseErr("InvalidDigit")
    ELSE IF acc * 10 + (Head(digits) - 48) > max THEN ParseErr("PosOverflow")
    ELSE ParseDigits(Tail(digits), acc * 10 + (Head(digits) - 48), max)

ParseUnsigned(src, max) ==
    IF src = <<>> THEN ParseErr("Empty")
    ELSE IF src = <<ChPlus>> \/ src = <<ChMinus>> THEN ParseErr("InvalidDigit")
    ELSE IF Head(src) = ChPlus THEN ParseDigits(Tail(src), 0, max)
    ELSE ParseDigits(src, 0, max)

ParseU8(src) == ParseUnsigned(src, 255)
ParseU16(src) == ParseUnsigned(src, 65535)

(***************************************************************************)
(* Results.                                                                *)
(***************************************************************************)
Pending == [status |-> "pending", error |-> "none", value |-> None]
Ok(v) == [status |-> "Ok", error |-> "none", value |-> v]
Err(e) == [status |-> "Err", error |-> e, value |-> None]

(***************************************************************************)
(* uri/ipv4.rs                                                             *)
(***************************************************************************)
Ipv4Shared(tag, num_groups, octet_buffer) ==
    [state |-> tag, error |-> "none",
     num_groups |-> num_groups, octet_buffer |-> octet_buffer]

Ipv4Error(e) ==
    [state |-> "Error", error |-> e, num_groups |-> 0, octet_buffer |-> <<>>]

ipv4_new == Ipv4Shared("NotInOctet", 0, <<>>)

\* faulty variant: the trailing octet is checked but not counted
Mut_ipv4_finalize_uncounted(state) ==
    IF state.octet_buffer # <<>> /\ ~ParseU8(state.octet_buffer).ok
    THEN Err("InvalidDecimalOctet")
    ELSE IF state.num_groups = 4 THEN Ok(None)
    ELSE IF state.num_groups < 4 THEN Err("TooFewAddressParts")
    ELSE Err("TooManyAddressParts")

ipv4_finalize_expect_digit_or_dot(state) ==
    LET counted == IF state.octet_buffer # <<>>
                   THEN state.num_groups + 1 ELSE state.num_groups
    IN  IF state.octet_buffer # <<>> /\ ~ParseU8(state.octet_buffer).ok
        THEN Err("InvalidDecimalOctet")
        ELSE IF counted = 4 THEN Ok(None)
        ELSE IF counted < 4 THEN Err("TooFewAddressParts")
        ELSE Err("TooManyAddressParts")

\* faulty variant: a text that ends with '.' is judged by its group count
Mut_ipv4_finalize_bare_dot(state) == ipv4_finalize_expect_digit_or_dot(state)

ipv4_finalize(state) ==
    IF state.state = "NotInOctet" THEN Err("TruncatedHost")
    ELSE ipv4_finalize_expect_digit_or_dot(state)

ipv4_next_not_in_octet(state, c) ==
    IF c \in DIGIT
    THEN Ipv4Shared("ExpectDigitOrDot", state.num_groups,
                    Append(state.octet_buffer, c))
    ELSE Ipv4Error("InvalidCharacter(Ipv4Address)")

\* faulty variant: a '.' closes the octet without the 0-255 check
Mut_ipv4_next_dot_unchecked(state, c) ==
    IF c = ChDot
    THEN IF state.num_groups + 1 > 4 THEN Ipv4Error("TooManyAddressParts")
         ELSE Ipv4Shared("NotInOctet", state.num_groups + 1, <<>>)
    ELSE IF c \in DIGIT
    THEN Ipv4Shared("ExpectDigitOrDot", state.num_groups,
                    Append(state.octet_buffer, c))
    ELSE Ipv4Error("InvalidCharacter(Ipv4Address)")

\* faulty variant: the octet buffer is kept when a '.' closes the octet
Mut_ipv4_next_dot_uncleared(state, c) ==
    IF c = ChDot
    THEN IF state.num_groups + 1 > 4 THEN Ipv4Error("TooManyAddressParts")
         ELSE IF ~ParseU8(state.octet_buffer).ok
         THEN Ipv4Error("InvalidDecimalOctet")
         ELSE Ipv4Shared("NotInOctet", state.num_groups + 1,
                         state.octet_buffer)
    ELSE IF c \in DIGIT
    THEN Ipv4Shared("ExpectDigitOrDot", state.num_groups,
                    Append(state.octet_buffer, c))
    ELSE Ipv4Error("InvalidCharacter(Ipv4Address)")

ipv4_next_expect_digit_or_dot(state, c) ==
    IF c = ChDot
    THEN IF state.num_groups + 1 > 4 THEN Ipv4Error("TooManyAddressParts")
         ELSE IF ~ParseU8(state.octet_buffer).ok
         THEN Ipv4Error("InvalidDecimalOctet")
         ELSE Ipv4Shared("NotInOctet", state.num_groups + 1, <<>>)
    ELSE IF c \in DIGIT
    THEN Ipv4Shared("ExpectDigitOrDot", state.num_groups,
                    Append(state.octet_buffer, c))
    ELSE Ipv4Error("InvalidCharacter(Ipv4Address)")

ipv4_next(state, c) ==
    IF state.state = "NotInOctet" THEN ipv4_next_not_in_octet(state, c)
    ELSE ipv4_next_expect_digit_or_dot(state, c)

\* chars().try_fold(State::new(), State::next): stops at the first error
RECURSIVE ipv4_try_fold(_, _)
ipv4_try_fold(state, address) ==
    IF address = <<>> \/ state.state = "Error" THEN state
    ELSE ipv4_try_fold(ipv4_next(state, Head(address)), Tail(address))

validate_ipv4_address(address) ==
    LET machine == ipv4_try_fold(ipv4_new, address)
    IN  IF machine.state = "Error" THEN Err(machine.error)
        ELSE ipv4_finalize(machine)

(***************************************************************************)
(* uri/ipv6.rs.  The Shared field `address` is the text itself: it is a    *)
(* parameter of finalize, the only place that reads it.  An index i of     *)
(* char_indices is a 0-based byte offset.                                  *)
(***************************************************************************)
Ipv6Shared(tag, num_groups, num_digits, double_colon_encountered,
           potential_ipv4_address_start) ==
    [state |-> tag, error |-> "none",
     num_groups |-> num_groups, num_digits |-> num_digits,
     double_colon_encountered |-> double_colon_encountered,
     potential_ipv4_address_start |-> potential_ipv4_address_start]

Ipv6Error(e) ==
    [state |-> "Error", error |-> e, num_groups |-> 0, num_digits |-> 0,
     double_colon_encountered |-> FALSE, potential_ipv4_address_start |-> 0]

Ipv6Goto(state, tag) == [state EXCEPT !.state = tag]

ipv6_new == Ipv6Shared("NoGroupsYet", 0, 0, FALSE, 0)

\* faulty variant: with '::' up to 8 groups are accepted
Mut_ipv6_finalize_count_8(double_colon_encountered, num_groups) ==
    IF double_colon_encountered /\ num_groups <= 8 THEN Ok(None)
    ELSE IF ~double_colon_encountered /\ num_groups = 8 THEN Ok(None)
    ELSE IF ~double_colon_encountered /\ num_groups < 8
    THEN Err("TooFewAddressParts")
    ELSE Err("TooManyAddressParts")

\* the final match of State::finalize
ipv6_finalize_count(double_colon_encountered, num_groups) ==
    IF double_colon_encountered /\ num_groups <= 7 THEN Ok(None)
    ELSE IF ~double_colon_encountered /\ num_groups = 8 THEN Ok(None)
    ELSE IF ~double_colon_encountered /\ num_groups < 8
    THEN Err("TooFewAddressParts")
    ELSE Err("TooManyAddressParts")

\* faulty variant: the tail is taken from the character after the group's first
Mut_ipv6_ipv4_tail_off_by_one(state, address) ==
    SubSeq(address,
           char_position(address, state.potential_ipv4_address_start) + 1,
           Len(address))

\* &state.address[state.potential_ipv4_address_start..]
ipv6_ipv4_tail(state, address) ==
    SubSeq(address, char_position(address, state.potential_ipv4_address_start),
           Len(address))

\* faulty variant: the trailing unterminated group is not counted
Mut_ipv6_finalize_groups_no_trailing(state) ==
    IF state.state = "InGroupIpv4" THEN state.num_groups + 2
    ELSE state.num_groups

\* the first match of State::finalize: the groups counted at the end
ipv6_finalize_groups(state) ==
    IF state.state \in {"InGroupNotIpv4", "InGroupCouldBeIpv4"}
    THEN state.num_groups + 1
    ELSE IF state.state = "InGroupIpv4" THEN state.num_groups + 2
    ELSE state.num_groups

\* faulty variant: the count of groups is looked at before the colon
Mut_ipv6_finalize_count_first(state, address) ==
    IF state.state = "InGroupIpv4"
       /\ ~is_char_boundary(address, state.potential_ipv4_address_start)
    THEN Err("panic")
    ELSE IF state.state = "InGroupIpv4"
       /\ validate_ipv4_address(ipv6_ipv4_tail(state, address)).status # "Ok"
    THEN validate_ipv4_address(ipv6_ipv4_tail(state, address))
    ELSE IF ipv6_finalize_count(state.double_colon_encountered,
                                ipv6_finalize_groups(state)).status = "Err"
    THEN ipv6_finalize_count(state.double_colon_encountered,
                             ipv6_finalize_groups(state))
    ELSE IF state.state \in {"ColonButNoGroupsYet", "ColonAfterGroup"}
    THEN Err("TruncatedHost")
    ELSE Ok(None)

\* a slice that does not start on a character boundary panics
ipv6_finalize(state, address) ==
    IF state.state = "InGroupIpv4"
       /\ ~is_char_boundary(address, state.potential_ipv4_address_start)
    THEN Err("panic")
    ELSE IF state.state = "InGroupIpv4"
       /\ validate_ipv4_address(ipv6_ipv4_tail(state, address)).status # "Ok"
    THEN validate_ipv4_address(ipv6_ipv4_tail(state, address))
    ELSE IF state.state \in {"ColonButNoGroupsYet", "ColonAfterGroup"}
    THEN Err("TruncatedHost")
    ELSE ipv6_finalize_count(state.double_colon_encountered,
                             ipv6_finalize_groups(state))

ipv6_next_no_groups_yet(state, i, c) ==
    IF c = ChColon THEN Ipv6Goto(state, "ColonButNoGroupsYet")
    ELSE IF c \in DIGIT
    THEN [state EXCEPT !.state = "InGroupCouldBeIpv4",
                       !.potential_ipv4_address_start = i,
                       !.num_digits = 1]
    ELSE IF c \in HEXDIG
    THEN [state EXCEPT !.state = "InGroupNotIpv4", !.num_digits = 1]
    ELSE Ipv6Error("InvalidCharacter(Ipv6Address)")

ipv6_next_colon_but_no_groups_yet(state, c) ==
    IF c = ChColon
    THEN [state EXCEPT !.state = "AfterDoubleColon",
                       !.double_colon_encountered = TRUE]
    ELSE Ipv6Error("InvalidCharacter(Ipv6Address)")

\* faulty variant: the first digit after '::' is not counted
Mut_ipv6_next_after_double_colon_uncounted(state, i, c) ==
    IF c \in DIGIT
    THEN [state EXCEPT !.state = "InGroupCouldBeIpv4",
                       !.potential_ipv4_address_start = i]
    ELSE IF c \in HEXDIG
    THEN [state EXCEPT !.state = "InGroupNotIpv4"]
    ELSE Ipv6Error("InvalidCharacter(Ipv6Address)")

ipv6_next_after_double_colon(state, i, c) ==
    IF state.num_digits + 1 > 4 THEN Ipv6Error("TooManyDigits")
    ELSE IF c \in DIGIT
    THEN [state EXCEPT !.state = "InGroupCouldBeIpv4",
                       !.num_digits = @ + 1,
                       !.potential_ipv4_address_start = i]
    ELSE IF c \in HEXDIG
    THEN [state EXCEPT !.state = "InGroupNotIpv4", !.num_digits = @ + 1]
    ELSE Ipv6Error("InvalidCharacter(Ipv6Address)")

ipv6_next_in_group_not_ipv4(state, c) ==
    IF c = ChColon
    THEN [state EXCEPT !.state = "ColonAfterGroup",
                       !.num_digits = 0, !.num_groups = @ + 1]
    ELSE IF c \in HEXDIG
    THEN IF state.num_digits + 1 > 4 THEN Ipv6Error("TooManyDigits")
         ELSE [state EXCEPT !.state = "InGroupNotIpv4", !.num_digits = @ + 1]
    ELSE Ipv6Error("InvalidCharacter(Ipv6Address)")

\* a '.' leaves the scan with MachineExitStatus::Ipv4Trailer(state)
ipv6_next_in_group_could_be_ipv4(state, c) ==
    IF c = ChColon
    THEN [state EXCEPT !.state = "ColonAfterGroup",
                       !.num_digits = 0, !.num_groups = @ + 1]
    ELSE IF c = ChDot THEN Ipv6Goto(state, "Ipv4Trailer")
    ELSE IF state.num_digits + 1 > 4 THEN Ipv6Error("TooManyDigits")
    ELSE IF c \in DIGIT
    THEN [state EXCEPT !.state = "InGroupCouldBeIpv4", !.num_digits = @ + 1]
    ELSE IF c \in HEXDIG
    THEN [state EXCEPT !.state = "InGroupNotIpv4", !.num_digits = @ + 1]
    ELSE Ipv6Error("InvalidCharacter(Ipv6Address)")

\* faulty variant: a group begun after a ':' does not record where it starts
Mut_ipv6_next_colon_after_group_no_start(state, i, c) ==
    IF c = ChColon
    THEN IF state.double_colon_encountered
         THEN Ipv6Error("TooManyDoubleColons")
         ELSE [state EXCEPT !.state = "AfterDoubleColon",
                            !.double_colon_encountered = TRUE]
    ELSE IF c \in DIGIT
    THEN [state EXCEPT !.state = "InGroupCouldBeIpv4", !.num_digits = @ + 1]
    ELSE IF c \in HEXDIG
    THEN [state EXCEPT !.state = "InGroupNotIpv4", !.num_digits = @ + 1]
    ELSE Ipv6Error("InvalidCharacter(Ipv6Address)")

ipv6_next_colon_after_group(state, i, c) ==
    IF c = ChColon
    THEN IF state.double_colon_encountered
         THEN Ipv6Error("TooManyDoubleColons")
         ELSE [state EXCEPT !.state = "AfterDoubleColon",
                            !.double_colon_encountered = TRUE]
    ELSE IF c \in DIGIT
    THEN [state EXCEPT !.state = "InGroupCouldBeIpv4",
                       !.potential_ipv4_address_start = i,
                       !.num_digits = @ + 1]
    ELSE IF c \in HEXDIG
    THEN [state EXCEPT !.state = "InGroupNotIpv4", !.num_digits = @ + 1]
    ELSE Ipv6Error("InvalidCharacter(Ipv6Address)")

ipv6_next(state, i, c) ==
    CASE state.state = "NoGroupsYet" -> ipv6_next_no_groups_yet(state, i, c)
      [] state.state = "ColonButNoGroupsYet" ->
             ipv6_next_colon_but_no_groups_yet(state, c)
      [] state.state = "AfterDoubleColon" ->
             ipv6_next_after_double_colon(state, i, c)
      [] state.state = "InGroupNotIpv4" -> ipv6_next_in_group_not_ipv4(state, c)
      [] state.state = "InGroupCouldBeIpv4" ->
             ipv6_next_in_group_could_be_ipv4(state, c)
      [] state.state = "InGroupIpv4" -> state
      [] state.state = "ColonAfterGroup" ->
             ipv6_next_colon_after_group(state, i, c)

\* the or_else of validate_ipv6_address: an Ipv4Trailer exit is not an error
ipv6_or_else(exit) ==
    IF exit.state = "Ipv4Trailer" THEN Ipv6Goto(exit, "InGroupIpv4") ELSE exit

\* char_indices().try_fold(..): stops at the first Err (error or trailer);
\* pos is the 1-based position of the next character
RECURSIVE ipv6_try_fold(_, _, _)
ipv6_try_fold(state, address, pos) ==
    IF pos > Len(address) \/ state.state \in {"Error", "Ipv4Trailer"} THEN state
    ELSE ipv6_try_fold(ipv6_next(state, byte_offset(address, pos), address[pos]),
                       address, pos + 1)

validate_ipv6_address(address) ==
    LET machine == ipv6_or_else(ipv6_try_fold(ipv6_new, address, 1))
    IN  IF machine.state = "Error" THEN Err(machine.error)
        ELSE ipv6_finalize(machine, address)

(***************************************************************************)
(* uri/codec.rs                                                            *)
(***************************************************************************)
\* faulty variant: only decimal digits are hex digits
Mut_to_digit_16_decimal(c) ==
    IF c \in 48..57 THEN c - 48 ELSE -1

\* char::to_digit(16): None is -1
to_digit_16(c) ==
    IF c \in 48..57 THEN c - 48
    ELSE IF c \in 97..102 THEN c - 87
    ELSE IF c \in 65..70 THEN c - 55
    ELSE -1

pec_new == [decoded_character |-> 0, digits_left |-> 2]

\* faulty variant: a character that is no hex digit leaves the shifted value
Mut_pec_shift_in_hex_digit_no_reset(decoder, c) ==
    IF to_digit_16(c) # -1
    THEN [ok |-> TRUE,
          decoder |-> [decoder EXCEPT !.decoded_character =
                          ((@ * 16) % 256) + to_digit_16(c)]]
    ELSE [ok |-> FALSE,
          decoder |-> [decoder EXCEPT !.decoded_character = (@ * 16) % 256]]

\* `<<= 4` on a u8 drops the high bits
pec_shift_in_hex_digit(decoder, c) ==
    IF to_digit_16(c) # -1
    THEN [ok |-> TRUE,
          decoder |-> [decoder EXCEPT !.decoded_character =
                          ((@ * 16) % 256) + to_digit_16(c)]]
    ELSE [ok |-> FALSE, decoder |-> pec_new]

\* faulty variant: the decoder is not reset after a byte
Mut_pec_next_no_reset(decoder, c) ==
    LET shifted == pec_shift_in_hex_digit(decoder, c)
    IN  IF ~shifted.ok
        THEN [ok |-> FALSE, output |-> None, decoder |-> shifted.decoder]
        ELSE IF shifted.decoder.digits_left - 1 = 0
        THEN [ok |-> TRUE, output |-> Some(shifted.decoder.decoded_character),
              decoder |-> [shifted.decoder EXCEPT !.digits_left = 2]]
        ELSE [ok |-> TRUE, output |-> None,
              decoder |-> [shifted.decoder EXCEPT !.digits_left = @ - 1]]

\* PercentEncodedCharacterDecoder::next: the decoder after the call, and
\* Err, Ok(None) or Ok(Some(byte))
pec_next(decoder, c) ==
    LET shifted == pec_shift_in_hex_digit(decoder, c)
    IN  IF ~shifted.ok
        THEN [ok |-> FALSE, output |-> None, decoder |-> shifted.decoder]
        ELSE IF shifted.decoder.digits_left - 1 = 0
        THEN [ok |-> TRUE, output |-> Some(shifted.decoder.decoded_character),
              decoder |-> pec_new]
        ELSE [ok |-> TRUE, output |-> None,
              decoder |-> [shifted.decoder EXCEPT !.digits_left = @ - 1]]

\* faulty variant: the cast keeps 7 bits
Mut_decode_literal_ascii(c) == c % 128

\* `c as u8` of decode_element
decode_literal(c) == c % 256

\* the filter_map closure of decode_element folded over the text; collect
\* stops at the first Err, and the end of the text inside an escape yields
\* the bytes collected so far
RECURSIVE decode_fold(_, _, _, _, _, _)
decode_fold(element, allowed_characters, context, decoding_pec, pec_decoder, out) ==
    IF element = <<>> THEN Ok(out)
    ELSE LET c == Head(element)
             n == pec_next(pec_decoder, c)
         IN  IF decoding_pec
             THEN IF ~n.ok THEN Err("InvalidPercentEncoding")
                  ELSE IF n.output = None
                  THEN decode_fold(Tail(element), allowed_characters, context,
                                   TRUE, n.decoder, out)
                  ELSE decode_fold(Tail(element), allowed_characters, context,
                                   FALSE, n.decoder, Append(out, n.output[1]))
             ELSE IF c = ChPercent
             THEN decode_fold(Tail(element), allowed_characters, context,
                              TRUE, pec_decoder, out)
             ELSE IF c \in allowed_characters
             THEN decode_fold(Tail(element), allowed_characters, context,
                              FALSE, pec_decoder, Append(out, decode_literal(c)))
             ELSE Err("InvalidCharacter(" \o context \o ")")

\* faulty variant: the decoded bytes are checked against the set as well
Mut_decode_element_recheck(element, allowed_characters, context) ==
    LET decoded == decode_fold(element, allowed_characters, context,
                               FALSE, pec_new, <<>>)
    IN  IF /\ decoded.status = "Ok"
           /\ \E i \in 1..Len(decoded.value) :
                  decoded.value[i] \notin allowed_characters
        THEN Err("InvalidCharacter(" \o context \o ")")
        ELSE decoded

decode_element(element, allowed_characters, context) ==
    decode_fold(element, allowed_characters, context, FALSE, pec_new, <<>>)

\* {:02X}: the two uppercase hex digits of a byte
upper_hex(n) == IF n < 10 THEN 48 + n ELSE 55 + n

\* faulty variant: {:X}, a byte below 16 gets one digit
Mut_encode_byte_unpadded(ci, allowed_characters) ==
    IF ci \in allowed_characters THEN <<ci>>
    ELSE IF ci < 16 THEN <<ChPercent, upper_hex(ci)>>
    ELSE <<ChPercent, upper_hex(ci \div 16), upper_hex(ci % 16)>>

\* the body of encode_element's loop: what one byte appends
encode_byte(ci, allowed_characters) ==
    IF ci \in allowed_characters THEN <<ci>>
    ELSE <<ChPercent, upper_hex(ci \div 16), upper_hex(ci % 16)>>

RECURSIVE encode_element(_, _)
encode_element(element, allowed_characters) ==
    IF element = <<>> THEN <<>>
    ELSE encode_byte(Head(element), allowed_characters)
             \o encode_element(Tail(element), allowed_characters)

(***************************************************************************)
(* uri/authority.rs                                                        *)
(***************************************************************************)
AuthShared ==
    [state |-> "Start", error |-> "none", userinfo |-> None,
     host |-> <<>>, host_is_reg_name |-> FALSE, ipv6_address |-> <<>>,
     pec_decoder |-> pec_new, port_string |-> <<>>]

\* an error drops the machine; parse's userinfo is dropped with it
AuthError(e) == [AuthShared EXCEPT !.state = "Error", !.error = e]

\* <[u8]>::make_ascii_lowercase
make_ascii_lowercase(bytes) ==
    [i \in 1..Len(bytes) |->
        IF bytes[i] \in 65..90 THEN bytes[i] + 32 ELSE bytes[i]]

\* u8::try_from(c as u32).unwrap() over the characters of a text
chars_fit_u8(chars) == \A i \in 1..Len(chars) : chars[i] <= 255

\* faulty variant: a port that does not parse is dropped
Mut_auth_finalize_port_dropped(port_string) ==
    IF port_string = <<>> THEN Ok(None)
    ELSE IF ParseU16(port_string).ok THEN Ok(Some(ParseU16(port_string).val))
    ELSE Ok(None)

\* faulty variant: the port is parsed as a u8
Mut_auth_finalize_port_u8(port_string) ==
    IF port_string = <<>> THEN Ok(None)
    ELSE IF ParseU8(port_string).ok THEN Ok(Some(ParseU8(port_string).val))
    ELSE Err("InvalidPortNumber")

\* the port of State::finalize
auth_finalize_port(port_string) ==
    IF port_string = <<>> THEN Ok(None)
    ELSE IF ParseU16(port_string).ok THEN Ok(Some(ParseU16(port_string).val))
    ELSE Err("InvalidPortNumber")

\* faulty variant: the host is returned as collected
Mut_auth_finalize_host_as_is(state) == state.host

\* the host of State::finalize
auth_finalize_host(state) ==
    IF state.host_is_reg_name THEN make_ascii_lowercase(state.host)
    ELSE state.host

\* faulty variant: a registered name of digits and dots is checked as an
\* IPv4 address
Mut_auth_finalize_ipv4_checked(state) ==
    IF state.state \in {"PercentEncodedCharacter", "Ipv6Address",
                        "IpvFutureNumber", "IpvFutureBody"}
    THEN Err("TruncatedHost")
    ELSE IF /\ state.host_is_reg_name
            /\ state.host # <<>>
            /\ \A i \in 1..Len(state.host) : state.host[i] \in DIGIT \cup {ChDot}
            /\ validate_ipv4_address(state.host).status = "Err"
    THEN validate_ipv4_address(state.host)
    ELSE IF auth_finalize_port(state.port_string).status = "Err"
    THEN auth_finalize_port(state.port_string)
    ELSE Ok(Some([userinfo |-> state.userinfo,
                  host |-> auth_finalize_host(state),
                  port |-> auth_finalize_port(state.port_string).value]))

\* State::finalize, and the Ok(Self {userinfo, host, port}) of parse
auth_finalize(state) ==
    IF state.state \in {"PercentEncodedCharacter", "Ipv6Address",
                        "IpvFutureNumber", "IpvFutureBody"}
    THEN Err("TruncatedHost")
    ELSE IF auth_finalize_port(state.port_string).status = "Err"
    THEN auth_finalize_port(state.port_string)
    ELSE Ok(Some([userinfo |-> state.userinfo,
                  host |-> auth_finalize_host(state),
                  port |-> auth_finalize_port(state.port_string).value]))

\* Authority::parse_userinfo when find('@') is Some: the text before the '@'
auth_parse_userinfo(before_at) ==
    decode_element(before_at, USER_INFO_NOT_PCT_ENCODED, "Userinfo")

\* faulty variant: the 'v' of an IPvFuture literal is skipped, not kept
Mut_auth_new_v_dropped(state, prefix) ==
    IF prefix = <<ChLBracket, ChLowerV>>
    THEN [state EXCEPT !.state = "IpvFutureNumber"]
    ELSE IF prefix = <<ChLBracket>>
    THEN [state EXCEPT !.state = "Ipv6Address"]
    ELSE [state EXCEPT !.state = "NotIpLiteral", !.host_is_reg_name = TRUE]

\* State::new: the branch taken for a host-port text with this prefix
auth_new(state, prefix) ==
    IF prefix = <<ChLBracket, ChLowerV>>
    THEN [state EXCEPT !.state = "IpvFutureNumber", !.host = <<ChLowerV>>]
    ELSE IF prefix = <<ChLBracket>>
    THEN [state EXCEPT !.state = "Ipv6Address"]
    ELSE [state EXCEPT !.state = "NotIpLiteral", !.host_is_reg_name = TRUE]

auth_next_not_ip_literal(state, c) ==
    IF c = ChPercent THEN [state EXCEPT !.state = "PercentEncodedCharacter"]
    ELSE IF c = ChColon THEN [state EXCEPT !.state = "Port"]
    ELSE IF c \in REG_NAME_NOT_PCT_ENCODED
    THEN IF c > 255 THEN AuthError("panic")
         ELSE [state EXCEPT !.host = Append(@, c)]
    ELSE AuthError("InvalidCharacter(Host)")

auth_next_percent_encoded_character(state, c) ==
    LET n == pec_next(state.pec_decoder, c)
    IN  IF ~n.ok THEN AuthError("InvalidPercentEncoding")
        ELSE IF n.output # None
        THEN [state EXCEPT !.state = "NotIpLiteral", !.pec_decoder = n.decoder,
                           !.host = Append(@, n.output[1])]
        ELSE [state EXCEPT !.pec_decoder = n.decoder]

\* faulty variant: the characters of the literal are checked as they are read
Mut_auth_next_ipv6_address_eager(state, c) ==
    IF c = ChRBracket
    THEN IF validate_ipv6_address(state.ipv6_address).status = "Err"
         THEN AuthError(validate_ipv6_address(state.ipv6_address).error)
         ELSE IF ~chars_fit_u8(state.ipv6_address) THEN AuthError("panic")
         ELSE [state EXCEPT !.state = "GarbageCheck",
                            !.host = state.ipv6_address]
    ELSE IF c \in HEXDIG \cup {ChColon, ChDot}
    THEN [state EXCEPT !.ipv6_address = Append(@, c)]
    ELSE AuthError("InvalidCharacter(Ipv6Address)")

auth_next_ipv6_address(state, c) ==
    IF c = ChRBracket
    THEN IF validate_ipv6_address(state.ipv6_address).status = "Err"
         THEN AuthError(validate_ipv6_address(state.ipv6_address).error)
         ELSE IF ~chars_fit_u8(state.ipv6_address) THEN AuthError("panic")
         ELSE [state EXCEPT !.state = "GarbageCheck",
                            !.host = state.ipv6_address]
    ELSE [state EXCEPT !.ipv6_address = Append(@, c)]

auth_next_ipv_future_number(state, c) ==
    IF c = ChDot
    THEN [state EXCEPT !.state = "IpvFutureBody", !.host = Append(@, ChDot)]
    ELSE IF c = ChRBracket THEN AuthError("TruncatedHost")
    ELSE IF c \in HEXDIG
    THEN IF c > 255 THEN AuthError("panic")
         ELSE [state EXCEPT !.host = Append(@, c)]
    ELSE AuthError("InvalidCharacter(IpvFuture)")

auth_next_ipv_future_body(state, c) ==
    IF c = ChRBracket THEN [state EXCEPT !.state = "GarbageCheck"]
    ELSE IF c \in IPV_FUTURE_LAST_PART
    THEN IF c > 255 THEN AuthError("panic")
         ELSE [state EXCEPT !.host = Append(@, c)]
    ELSE AuthError("InvalidCharacter(IpvFuture)")

\* faulty variant: a character that is not ':' is skipped
Mut_auth_next_garbage_check_skip(state, c) ==
    IF c = ChColon THEN [state EXCEPT !.state = "Port"] ELSE state

auth_next_garbage_check(state, c) ==
    IF c = ChColon THEN [state EXCEPT !.state = "Port"]
    ELSE AuthError("InvalidCharacter(Host)")

\* faulty variant: a port character that is no digit is an error at once
Mut_auth_next_port_digits_only(state, c) ==
    IF c \in DIGIT THEN [state EXCEPT !.port_string = Append(@, c)]
    ELSE AuthError("InvalidCharacter(Host)")

auth_next_port(state, c) ==
    [state EXCEPT !.port_string = Append(@, c)]

\* State::next
auth_next(state, c) ==
    IF state.state = "NotIpLiteral" THEN auth_next_not_ip_literal(state, c)
    ELSE IF state.state = "PercentEncodedCharacter"
    THEN auth_next_percent_encoded_character(state, c)
    ELSE IF state.state = "Ipv6Address" THEN auth_next_ipv6_address(state, c)
    ELSE IF state.state = "IpvFutureNumber"
    THEN auth_next_ipv_future_number(state, c)
    ELSE IF state.state = "IpvFutureBody" THEN auth_next_ipv_future_body(state, c)
    ELSE IF state.state = "GarbageCheck" THEN auth_next_garbage_check(state, c)
    ELSE auth_next_port(state, c)

\* try_fold(machine, State::next): stops at the first Err
RECURSIVE auth_try_fold(_, _)
auth_try_fold(state, chars) ==
    IF chars = <<>> \/ state.state = "Error" THEN state
    ELSE auth_try_fold(auth_next(state, Head(chars)), Tail(chars))

\* what State::new strips from the host-port text
auth_new_prefix(host_port_string) ==
    IF /\ Len(host_port_string) >= 2
       /\ host_port_string[1] = ChLBracket
       /\ host_port_string[2] = ChLowerV
    THEN <<ChLBracket, ChLowerV>>
    ELSE IF Len(host_port_string) >= 1 /\ host_port_string[1] = ChLBracket
    THEN <<ChLBracket>>
    ELSE <<>>

\* parse_host_port, and with parse's userinfo the Ok(Self {..}) of parse;
\* State::new slices the text at byte 2 or 1, the length of the prefix
parse_host_port(userinfo, host_port_string) ==
    LET prefix == auth_new_prefix(host_port_string)
        machine == auth_try_fold(
            auth_new([AuthShared EXCEPT !.userinfo = userinfo], prefix),
            SubSeq(host_port_string,
                   char_position(host_port_string, Len(prefix)),
                   Len(host_port_string)))
    IN  IF ~is_char_boundary(host_port_string, Len(prefix)) THEN Err("panic")
        ELSE IF machine.state = "Error" THEN Err(machine.error)
        ELSE auth_finalize(machine)

\* faulty variant: the text is split at its last '@'
Mut_Authority_parse_last_at(authority_string) ==
    IF Contains(authority_string, ChAt)
    THEN LET delimiter == CHOOSE i \in 1..Len(authority_string) :
                 /\ authority_string[i] = ChAt
                 /\ \A j \in (i + 1)..Len(authority_string) :
                        authority_string[j] # ChAt
             userinfo == auth_parse_userinfo(
                 SubSeq(authority_string, 1, delimiter - 1))
         IN  IF userinfo.status = "Err" THEN userinfo
             ELSE parse_host_port(Some(userinfo.value),
                      SubSeq(authority_string, delimiter + 1,
                             Len(authority_string)))
    ELSE parse_host_port(None, authority_string)

\* faulty variant: the host-port text is parsed before the userinfo is checked
Mut_Authority_parse_host_first(authority_string) ==
    IF Contains(authority_string, ChAt)
    THEN LET delimiter == FirstIndex(authority_string, ChAt)
             userinfo == auth_parse_userinfo(
                 SubSeq(authority_string, 1, delimiter - 1))
             host_port == parse_host_port(
                 (IF userinfo.status = "Err" THEN None ELSE Some(userinfo.value)),
                 SubSeq(authority_string, delimiter + 1, Len(authority_string)))
         IN  IF host_port.status = "Err" THEN host_port
             ELSE IF userinfo.status = "Err" THEN userinfo
             ELSE host_port
    ELSE parse_host_port(None, authority_string)

\* Authority::parse; delimiter is the byte offset find('@') returns, and
\* the two slices of parse_userinfo are taken at it and after it
Authority_parse(authority_string) ==
    IF Contains(authority_string, ChAt)
    THEN LET delimiter == byte_offset(authority_string,
                                      FirstIndex(authority_string, ChAt))
             userinfo == auth_parse_userinfo(
                 SubSeq(authority_string, 1,
                        char_position(authority_string, delimiter) - 1))
         IN  IF ~is_char_boundary(authority_string, delimiter) THEN Err("panic")
             ELSE IF userinfo.status = "Err" THEN userinfo
             ELSE IF ~is_char_boundary(authority_string, delimiter + 1)
             THEN Err("panic")
             ELSE parse_host_port(Some(userinfo.value),
                      SubSeq(authority_string,
                             char_position(authority_string, delimiter + 1),
                             Len(authority_string)))
    ELSE parse_host_port(None, authority_string)

(***************************************************************************)
(* The IPv4 scanner, one character at a time.                              *)
(***************************************************************************)
\* '0', '2', '5', '.', 'x'
Ipv4Chars == {48, 50, 53, 46, 120}

Ipv4Idle ==
    [state |-> "Idle", error |-> "none", num_groups |-> 0, octet_buffer |-> <<>>]
Ipv6Idle == [state |-> "Idle"]
AuthIdle == [state |-> "Idle"]
CodecIdle == [state |-> "Idle"]
TablesIdle == [state |-> "Idle"]
SharedIdle == [state |-> "Idle"]

Ipv4Init ==
    /\ text = <<>>
    /\ ipv4 = ipv4_new
    /\ ipv6 = Ipv6Idle
    /\ auth = AuthIdle
    /\ result = Pending
    /\ codec = CodecIdle
    /\ tables = TablesIdle
    /\ shared = SharedIdle

Ipv4Read(c, next) ==
    /\ text' = Append(text, c)
    /\ ipv4' = next
    /\ result' = IF next.state = "Error" THEN Err(next.error) ELSE result
    /\ UNCHANGED <<ipv6, auth, codec, tables, shared>>

Ipv4NextNotInOctet ==
    /\ result = Pending
    /\ ipv4.state = "NotInOctet"
    /\ Len(text) < MaxIpv4Len
    /\ \E c \in Ipv4Chars : Ipv4Read(c, ipv4_next_not_in_octet(ipv4, c))

Ipv4NextExpectDigitOrDot ==
    /\ result = Pending
    /\ ipv4.state = "ExpectDigitOrDot"
    /\ Len(text) < MaxIpv4Len
    /\ \E c \in Ipv4Chars : Ipv4Read(c, ipv4_next_expect_digit_or_dot(ipv4, c))

\* the text ends: try_fold returns the machine and finalize is applied
Ipv4Finalize ==
    /\ result = Pending
    /\ ipv4.state \in {"NotInOctet", "ExpectDigitOrDot"}
    /\ result' = ipv4_finalize(ipv4)
    /\ UNCHANGED <<text, ipv4, ipv6, auth, codec, tables, shared>>

Ipv4Next == Ipv4NextNotInOctet \/ Ipv4NextExpectDigitOrDot \/ Ipv4Finalize

SpecIpv4 == Ipv4Init /\ [][Ipv4Next]_vars

(***************************************************************************)
(* validate_ipv4_address applied to whole texts: at most MaxIpv4Groups     *)
(* decimal groups of Ipv4OctetTexts, joined by single dots.                *)
(***************************************************************************)
MaxIpv4Groups == 6

\* "0", "25", "255", "256", "0255", "2550"
Ipv4OctetTexts ==
    {<<48>>, <<50, 53>>, <<50, 53, 53>>, <<50, 53, 54>>,
     <<48, 50, 53, 53>>, <<50, 53, 53, 48>>}

RECURSIVE JoinDots(_)
JoinDots(groups) ==
    IF Len(groups) = 1 THEN groups[1]
    ELSE groups[1] \o <<ChDot>> \o JoinDots(Tail(groups))

Ipv4Inputs ==
    {JoinDots(groups) :
        groups \in UNION {[1..n -> Ipv4OctetTexts] : n \in 1..MaxIpv4Groups}}

Ipv4FnInit ==
    /\ text \in Ipv4Inputs
    /\ ipv4 = ipv4_new
    /\ ipv6 = Ipv6Idle
    /\ auth = AuthIdle
    /\ result = Pending
    /\ codec = CodecIdle
    /\ tables = TablesIdle
    /\ shared = SharedIdle

Ipv4Validate ==
    /\ result = Pending
    /\ ipv4' = ipv4_try_fold(ipv4_new, text)
    /\ result' = validate_ipv4_address(text)
    /\ UNCHANGED <<text, ipv6, auth, codec, tables, shared>>

SpecIpv4Fn == Ipv4FnInit /\ [][Ipv4Validate]_vars

(***************************************************************************)
(* The IPv6 scanner, one character at a time.  The texts read are a run of *)
(* at most MaxFill groups "1:" followed by at most MaxFree characters of   *)
(* Ipv6Chars.                                                              *)
(***************************************************************************)
\* '1', 'a', 'F', ':', '.', 'g'
Ipv6Chars == {49, 97, 70, 58, 46, 103}

\* the number of leading "1:" groups of t, counted from k
RECURSIVE FillCount(_, _)
FillCount(t, k) ==
    IF k < MaxFill /\ Len(t) >= 2 * k + 2
       /\ t[2 * k + 1] = 49 /\ t[2 * k + 2] = ChColon
    THEN FillCount(t, k + 1)
    ELSE k

Ipv6InputBound(t) == Len(t) - 2 * FillCount(t, 0) <= MaxFree

Ipv6Init ==
    /\ text = <<>>
    /\ ipv4 = Ipv4Idle
    /\ ipv6 = ipv6_new
    /\ auth = AuthIdle
    /\ result = Pending
    /\ codec = CodecIdle
    /\ tables = TablesIdle
    /\ shared = SharedIdle

Ipv6Read(c, next) ==
    /\ Ipv6InputBound(Append(text, c))
    /\ text' = Append(text, c)
    /\ ipv6' = ipv6_or_else(next)
    /\ result' = IF next.state = "Error" THEN Err(next.error) ELSE result
    /\ UNCHANGED <<ipv4, auth, codec, tables, shared>>

Ipv6NextNoGroupsYet ==
    /\ result = Pending
    /\ ipv6.state = "NoGroupsYet"
    /\ \E c \in Ipv6Chars :
           Ipv6Read(c, ipv6_next_no_groups_yet(ipv6, byte_offset(text, Len(text) + 1), c))

Ipv6NextColonButNoGroupsYet ==
    /\ result = Pending
    /\ ipv6.state = "ColonButNoGroupsYet"
    /\ \E c \in Ipv6Chars :
           Ipv6Read(c, ipv6_next_colon_but_no_groups_yet(ipv6, c))

Ipv6NextAfterDoubleColon ==
    /\ result = Pending
    /\ ipv6.state = "AfterDoubleColon"
    /\ \E c \in Ipv6Chars :
           Ipv6Read(c, ipv6_next_after_double_colon(ipv6, byte_offset(text, Len(text) + 1), c))

Ipv6NextInGroupNotIpv4 ==
    /\ result = Pending
    /\ ipv6.state = "InGroupNotIpv4"
    /\ \E c \in Ipv6Chars :
           Ipv6Read(c, ipv6_next_in_group_not_ipv4(ipv6, c))

Ipv6NextInGroupCouldBeIpv4 ==
    /\ result = Pending
    /\ ipv6.state = "InGroupCouldBeIpv4"
    /\ \E c \in Ipv6Chars :
           Ipv6Read(c, ipv6_next_in_group_could_be_ipv4(ipv6, c))

Ipv6NextColonAfterGroup ==
    /\ result = Pending
    /\ ipv6.state = "ColonAfterGroup"
    /\ \E c \in Ipv6Chars :
           Ipv6Read(c, ipv6_next_colon_after_group(ipv6, byte_offset(text, Len(text) + 1), c))

\* after the Ipv4Trailer exit the scan is over: the rest of the address is
\* not read by the IPv6 scanner, and is part of the tail finalize validates
Ipv6TrailerText ==
    /\ result = Pending
    /\ ipv6.state = "InGroupIpv4"
    /\ \E c \in Ipv6Chars :
           /\ Ipv6InputBound(Append(text, c))
           /\ text' = Append(text, c)
    /\ UNCHANGED <<ipv4, ipv6, auth, result, codec, tables, shared>>

\* the text ends: finalize
Ipv6Finalize ==
    /\ result = Pending
    /\ ipv6.state # "Error"
    /\ result' = ipv6_finalize(ipv6, text)
    /\ UNCHANGED <<text, ipv4, ipv6, auth, codec, tables, shared>>

Ipv6Next ==
    \/ Ipv6NextNoGroupsYet
    \/ Ipv6NextColonButNoGroupsYet
    \/ Ipv6NextAfterDoubleColon
    \/ Ipv6NextInGroupNotIpv4
    \/ Ipv6NextInGroupCouldBeIpv4
    \/ Ipv6NextColonAfterGroup
    \/ Ipv6TrailerText
    \/ Ipv6Finalize

SpecIpv6 == Ipv6Init /\ [][Ipv6Next]_vars

(***************************************************************************)
(* Authority::parse.  parse_userinfo looks for the first '@' of the whole  *)
(* text and State::new at the first two characters of the host-port text,  *)
(* so the text is fixed in that order: first whether it has an '@' and     *)
(* what precedes it, then how the host-port text begins, then the rest one *)
(* character at a time, as the scanner reads it.                           *)
(***************************************************************************)
\* 'U', ':', '%', '4', '^'
AuthUserinfoChars == {85, 58, 37, 52, 94}
\* 'A', '.', '%', '4', '1', ':', '^'
AuthRegNameChars == {65, 46, 37, 52, 49, 58, 94}
\* '1', 'F', ':', '.', ']', '^'
AuthIpv6Chars == {49, 70, 58, 46, 93, 94}
\* '1', 'F', '.', ':', ']', '^'
AuthIpvFutureChars == {49, 70, 46, 58, 93, 94}
\* ':', ']', 'A'
AuthGarbageChars == {58, 93, 65}
\* '6', '5', '+', ':'
AuthPortChars == {54, 53, 43, 58}

UserinfoInputs ==
    UNION {[1..n -> AuthUserinfoChars] : n \in 0..MaxUserinfoLen}

\* &authority[delimiter + 1..], or the whole text when it has no '@'
HostPortOf(t) ==
    IF Contains(t, ChAt) THEN SubSeq(t, FirstIndex(t, ChAt) + 1, Len(t)) ELSE t

\* the branch of State::new for a host-port text
NewBranch(hp) ==
    IF Len(hp) >= 2 /\ hp[1] = ChLBracket /\ hp[2] = ChLowerV
    THEN "IpvFutureNumber"
    ELSE IF Len(hp) >= 1 /\ hp[1] = ChLBracket THEN "Ipv6Address"
    ELSE "NotIpLiteral"

AuthInit ==
    /\ text = <<>>
    /\ ipv4 = Ipv4Idle
    /\ ipv6 = Ipv6Idle
    /\ auth = AuthShared
    /\ result = Pending
    /\ codec = CodecIdle
    /\ tables = TablesIdle
    /\ shared = SharedIdle

\* parse_userinfo on a text with an '@'
AuthParseUserinfoSome ==
    /\ result = Pending
    /\ auth.state = "Start"
    /\ \E u \in UserinfoInputs :
           /\ text' = Append(u, ChAt)
           /\ IF auth_parse_userinfo(u).status = "Err"
              THEN /\ auth' = AuthError(auth_parse_userinfo(u).error)
                   /\ result' = auth_parse_userinfo(u)
              ELSE /\ auth' = [auth EXCEPT !.state = "HostPort",
                                  !.userinfo = Some(auth_parse_userinfo(u).value)]
                   /\ result' = result
    /\ UNCHANGED <<ipv4, ipv6, codec, tables, shared>>

\* parse_userinfo on a text without '@'
AuthParseUserinfoNone ==
    /\ result = Pending
    /\ auth.state = "Start"
    /\ auth' = [auth EXCEPT !.state = "HostPort"]
    /\ UNCHANGED <<text, ipv4, ipv6, result, codec, tables, shared>>

\* State::new
AuthNew ==
    /\ result = Pending
    /\ auth.state = "HostPort"
    /\ \E prefix \in {<<ChLBracket, ChLowerV>>, <<ChLBracket>>, <<>>} :
           /\ Len(text) + Len(prefix) <= MaxAuthLen
           /\ text' = text \o prefix
           /\ auth' = auth_new(auth, prefix)
    /\ UNCHANGED <<ipv4, ipv6, result, codec, tables, shared>>

\* a character the text can have here: the text stays within the bound,
\* has no '@' when parse_userinfo found none, and begins as State::new saw
AuthCanRead(c) ==
    /\ Len(text) < MaxAuthLen
    /\ (auth.userinfo = None => c # ChAt)
    /\ IF Len(HostPortOf(text)) >= 2 THEN TRUE
       ELSE NewBranch(HostPortOf(Append(text, c))) = NewBranch(HostPortOf(text))

AuthRead(c, next) ==
    /\ AuthCanRead(c)
    /\ text' = Append(text, c)
    /\ auth' = next
    /\ result' = IF next.state = "Error" THEN Err(next.error) ELSE result
    /\ UNCHANGED <<ipv4, ipv6, codec, tables, shared>>

AuthNextNotIpLiteral ==
    /\ result = Pending
    /\ auth.state = "NotIpLiteral"
    /\ \E c \in AuthRegNameChars : AuthRead(c, auth_next_not_ip_literal(auth, c))

AuthNextPercentEncodedCharacter ==
    /\ result = Pending
    /\ auth.state = "PercentEncodedCharacter"
    /\ \E c \in AuthRegNameChars :
           AuthRead(c, auth_next_percent_encoded_character(auth, c))

AuthNextIpv6Address ==
    /\ result = Pending
    /\ auth.state = "Ipv6Address"
    /\ \E c \in AuthIpv6Chars : AuthRead(c, auth_next_ipv6_address(auth, c))

AuthNextIpvFutureNumber ==
    /\ result = Pending
    /\ auth.state = "IpvFutureNumber"
    /\ \E c \in AuthIpvFutureChars :
           AuthRead(c, auth_next_ipv_future_number(auth, c))

AuthNextIpvFutureBody ==
    /\ result = Pending
    /\ auth.state = "IpvFutureBody"
    /\ \E c \in AuthIpvFutureChars :
           AuthRead(c, auth_next_ipv_future_body(auth, c))

AuthNextGarbageCheck ==
    /\ result = Pending
    /\ auth.state = "GarbageCheck"
    /\ \E c \in AuthGarbageChars : AuthRead(c, auth_next_garbage_check(auth, c))

AuthNextPort ==
    /\ result = Pending
    /\ auth.state = "Port"
    /\ \E c \in AuthPortChars : AuthRead(c, auth_next_port(auth, c))

\* the text ends: finalize, and parse returns
AuthFinalize ==
    /\ result = Pending
    /\ auth.state \notin {"Start", "HostPort", "Error"}
    /\ result' = auth_finalize(auth)
    /\ UNCHANGED <<text, ipv4, ipv6, auth, codec, tables, shared>>

AuthNext ==
    \/ AuthParseUserinfoSome
    \/ AuthParseUserinfoNone
    \/ AuthNew
    \/ AuthNextNotIpLiteral
    \/ AuthNextPercentEncodedCharacter
    \/ AuthNextIpv6Address
    \/ AuthNextIpvFutureNumber
    \/ AuthNextIpvFutureBody
    \/ AuthNextGarbageCheck
    \/ AuthNextPort
    \/ AuthFinalize

SpecAuth == AuthInit /\ [][AuthNext]_vars

(***************************************************************************)
(* Authority::parse as a function of whole texts.                          *)
(***************************************************************************)
\* 'U', '@', '^', '%', '4', ':', '[', ']', 'v', '.', and U+03BB, which takes
\* two bytes and does not fit a u8
AuthFnChars == {85, 64, 94, 37, 52, 58, 91, 93, 118, 46, 955}

AuthFnInputs == UNION {[1..n -> AuthFnChars] : n \in 0..MaxAuthFnLen}

AuthFnInit ==
    /\ text \in AuthFnInputs
    /\ ipv4 = Ipv4Idle
    /\ ipv6 = Ipv6Idle
    /\ auth = AuthIdle
    /\ result = Pending
    /\ codec = CodecIdle
    /\ tables = TablesIdle
    /\ shared = SharedIdle

AuthFnParse ==
    /\ result = Pending
    /\ result' = Authority_parse(text)
    /\ UNCHANGED <<text, ipv4, ipv6, auth, codec, tables, shared>>

SpecAuthFn == AuthFnInit /\ [][AuthFnParse]_vars

(***************************************************************************)
(* The character-class tables.  Each table is a `pub const` item of type   *)
(* LazyLock: a use of the item's name is a new value of the constant       *)
(* expression LazyLock::new(..), so every membership test works on a       *)
(* LazyLock of its own, forces it, and drops it.                           *)
(***************************************************************************)
Threads == {1, 2}
Tables == {"DIGIT", "HEXDIG"}

\* the tables a table's initializer uses, each through a LazyLock of its own
table_initializer_uses(table) == IF table = "HEXDIG" THEN {"DIGIT"} ELSE {}

TablesInit ==
    /\ text = <<>>
    /\ ipv4 = Ipv4Idle
    /\ ipv6 = Ipv6Idle
    /\ auth = AuthIdle
    /\ result = Pending
    /\ codec = CodecIdle
    /\ tables = [state |-> "Run",
                 pc |-> [t \in Threads |-> "idle"],
                 table |-> [t \in Threads |-> "none"],
                 lazy_lock |-> [t \in Threads |-> "none"],
                 uses |-> [t \in Threads |-> 0],
                 initializations |-> [table \in Tables |-> 0]]
    /\ shared = SharedIdle

\* TABLE.contains(&c), the place expression TABLE: a new LazyLock
TableUse(t, table) ==
    /\ tables.pc[t] = "idle"
    /\ tables.uses[t] < MaxTableUses
    /\ tables' = [tables EXCEPT !.pc[t] = "deref", !.table[t] = table,
                                !.lazy_lock[t] = "uninit", !.uses[t] = @ + 1]
    /\ UNCHANGED <<text, ipv4, ipv6, auth, result, codec, shared>>

\* Deref::deref forces the LazyLock: an uninitialized one runs the
\* initializer, which forces the new LazyLocks of the tables it uses
TableDeref(t) ==
    /\ tables.pc[t] = "deref"
    /\ tables' = [tables EXCEPT
           !.pc[t] = "contains",
           !.lazy_lock[t] = "init",
           !.initializations = [table \in Tables |->
               IF /\ tables.lazy_lock[t] = "uninit"
                  /\ \/ table = tables.table[t]
                     \/ table \in table_initializer_uses(tables.table[t])
               THEN @[table] + 1 ELSE @[table]]]
    /\ UNCHANGED <<text, ipv4, ipv6, auth, result, codec, shared>>

\* HashSet::contains, then the temporary LazyLock is dropped
TableContains(t) ==
    /\ tables.pc[t] = "contains"
    /\ tables' = [tables EXCEPT !.pc[t] = "idle", !.table[t] = "none",
                                !.lazy_lock[t] = "none"]
    /\ UNCHANGED <<text, ipv4, ipv6, auth, result, codec, shared>>

TablesNext ==
    \E t \in Threads :
        \/ \E table \in Tables : TableUse(t, table)
        \/ TableDeref(t)
        \/ TableContains(t)

SpecTables == TablesInit /\ [][TablesNext]_vars

(***************************************************************************)
(* encode_element, then decode_element of its output with the same set.    *)
(***************************************************************************)
\* 'A', '%', '4', U+00E9 whose byte is not ASCII, and a line feed whose
\* byte is below 16
CodecBytes == {65, 37, 52, 233, 10}

CodecSets == SUBSET CodecBytes

CodecElements == UNION {[1..n -> CodecBytes] : n \in 0..MaxElementLen}

CodecInit ==
    /\ text = <<>>
    /\ ipv4 = Ipv4Idle
    /\ ipv6 = Ipv6Idle
    /\ auth = AuthIdle
    /\ result = Pending
    /\ codec \in [state : {"New"}, element : CodecElements,
                  allowed_characters : CodecSets]
    /\ tables = TablesIdle
    /\ shared = SharedIdle

CodecEncode ==
    /\ codec.state = "New"
    /\ text' = encode_element(codec.element, codec.allowed_characters)
    /\ codec' = [codec EXCEPT !.state = "Encoded"]
    /\ UNCHANGED <<ipv4, ipv6, auth, result, tables, shared>>

CodecDecode ==
    /\ codec.state = "Encoded"
    /\ result' = decode_element(text, codec.allowed_characters, "Userinfo")
    /\ codec' = [codec EXCEPT !.state = "Decoded"]
    /\ UNCHANGED <<text, ipv4, ipv6, auth, tables, shared>>

CodecNext == CodecEncode \/ CodecDecode

SpecCodec == CodecInit /\ [][CodecNext]_vars

(***************************************************************************)
(* Authority::parse as a function of whole texts of digits and dots: the   *)
(* short texts over DottedChars and the dotted groups of Ipv4Inputs.        *)
(***************************************************************************)
\* '1', '2', '3', '.'
DottedChars == {49, 50, 51, 46}

DottedInputs == UNION {[1..n -> DottedChars] : n \in 0..MaxDottedLen}

DottedInit ==
    /\ text \in DottedInputs \cup Ipv4Inputs
    /\ ipv4 = Ipv4Idle
    /\ ipv6 = Ipv6Idle
    /\ auth = AuthIdle
    /\ result = Pending
    /\ codec = CodecIdle
    /\ tables = TablesIdle
    /\ shared = SharedIdle

DottedParse ==
    /\ result = Pending
    /\ result' = Authority_parse(text)
    /\ UNCHANGED <<text, ipv4, ipv6, auth, codec, tables, shared>>

SpecDotted == DottedInit /\ [][DottedParse]_vars

(***************************************************************************)
(* The notions the properties are stated with, defined on the text alone.  *)
(***************************************************************************)
DecimalDigits == 48..57
HexDigits == (48..57) \cup (65..70) \cup (97..102)

\* the pieces of t between the occurrences of sep
RECURSIVE SplitAt(_, _)
SplitAt(t, sep) ==
    IF ~Contains(t, sep) THEN <<t>>
    ELSE <<SubSeq(t, 1, FirstIndex(t, sep) - 1)>>
         \o SplitAt(SubSeq(t, FirstIndex(t, sep) + 1, Len(t)), sep)

IsDecimalRun(g) == g # <<>> /\ \A i \in 1..Len(g) : g[i] \in DecimalDigits

RECURSIVE DecimalValue(_)
DecimalValue(g) ==
    IF g = <<>> THEN 0
    ELSE 10 * DecimalValue(SubSeq(g, 1, Len(g) - 1)) + (g[Len(g)] - 48)

AllDecimalRuns(groups) == \A i \in 1..Len(groups) : IsDecimalRun(groups[i])
SomeAbove255(groups) == \E i \in 1..Len(groups) : DecimalValue(groups[i]) > 255

IsDottedQuad(t) ==
    /\ Len(SplitAt(t, ChDot)) = 4
    /\ AllDecimalRuns(SplitAt(t, ChDot))
    /\ ~SomeAbove255(SplitAt(t, ChDot))

(***************************************************************************)
(* C1 (SpecIpv4): validate_ipv4_address succeeds on every text d1.d2.d3.d4 *)
(* whose four groups are non-empty runs of decimal digits with a value in  *)
(* 0..255.                                                                 *)
(***************************************************************************)
C1_DottedQuadAccepted ==
    (result # Pending /\ IsDottedQuad(text)) => result = Ok(None)

\* "255" and a group with a leading zero among the four groups of an
\* accepted text
C1_Witness ==
    /\ result = Ok(None)
    /\ IsDottedQuad(text)
    /\ \E i, j \in 1..4 :
           /\ SplitAt(text, ChDot)[i] = <<50, 53, 53>>
           /\ SplitAt(text, ChDot)[j] = <<48, 50>>

(***************************************************************************)
(* C2 (SpecIpv4Fn): on a text of n >= 1 non-empty decimal groups separated *)
(* by single dots, a group above 255 as the only defect gives              *)
(* InvalidDecimalOctet, n < 4 as the only defect TooFewAddressParts and    *)
(* n > 4 as the only defect TooManyAddressParts.                           *)
(***************************************************************************)
C2_Ipv4DefectErrors ==
    LET groups == SplitAt(text, ChDot)
    IN  (result # Pending /\ AllDecimalRuns(groups)) =>
            /\ (Len(groups) = 4 /\ SomeAbove255(groups))
                   => result = Err("InvalidDecimalOctet")
            /\ (Len(groups) < 4 /\ ~SomeAbove255(groups))
                   => result = Err("TooFewAddressParts")
            /\ (Len(groups) > 4 /\ ~SomeAbove255(groups))
                   => result = Err("TooManyAddressParts")

\* four groups, the second (not the last) above 255
C2_Witness ==
    LET groups == SplitAt(text, ChDot)
    IN  /\ result = Err("InvalidDecimalOctet")
        /\ Len(groups) = 4
        /\ DecimalValue(groups[2]) > 255
        /\ \A i \in {1, 3, 4} : DecimalValue(groups[i]) <= 255

(***************************************************************************)
(* IPv6 texts.                                                             *)
(***************************************************************************)
HasDoubleColon(t) ==
    \E i \in 1..(Len(t) - 1) : t[i] = ChColon /\ t[i + 1] = ChColon

EndsWith(t, suffix) ==
    /\ Len(t) >= Len(suffix)
    /\ SubSeq(t, Len(t) - Len(suffix) + 1, Len(t)) = suffix

IsHexGroup(g) == Len(g) \in 1..4 /\ \A i \in 1..Len(g) : g[i] \in HexDigits

IsEightHexGroups(t) ==
    /\ Len(SplitAt(t, ChColon)) = 8
    /\ \A i \in 1..8 : IsHexGroup(SplitAt(t, ChColon)[i])

\* the length of the longest suffix of t made of characters of S
RECURSIVE TrailingRun(_, _)
TrailingRun(t, S) ==
    IF t = <<>> \/ t[Len(t)] \notin S THEN 0
    ELSE 1 + TrailingRun(SubSeq(t, 1, Len(t) - 1), S)

\* the number of maximal runs of hex digits of t
HexRunCount(t) ==
    Cardinality({i \in 1..Len(t) :
        t[i] \in HexDigits /\ (i = 1 \/ t[i - 1] \notin HexDigits)})

\* the text before the first '.'
BeforeDot(t) == SubSeq(t, 1, FirstIndex(t, ChDot) - 1)

\* the first '.' of t ends a non-empty group made of decimal digits only
DotInDecimalGroup(t) ==
    /\ Contains(t, ChDot)
    /\ TrailingRun(BeforeDot(t), DecimalDigits) >= 1
    /\ TrailingRun(BeforeDot(t), DecimalDigits) = TrailingRun(BeforeDot(t), HexDigits)

\* then: the position of that group's first character, the text before it
\* and the text from it to the end
TailStart(t) == Len(BeforeDot(t)) - TrailingRun(BeforeDot(t), DecimalDigits) + 1
HeadOf(t) == SubSeq(t, 1, TailStart(t) - 1)
TailOf(t) == SubSeq(t, TailStart(t), Len(t))

\* the rule on ('::' seen, group count)
CountRule(double_colon, groups) ==
    IF double_colon
    THEN IF groups <= 7 THEN Ok(None) ELSE Err("TooManyAddressParts")
    ELSE IF groups = 8 THEN Ok(None)
    ELSE IF groups < 8 THEN Err("TooFewAddressParts")
    ELSE Err("TooManyAddressParts")

\* the groups of a text, a trailing unterminated group included and an IPv4
\* tail counted as 2
GroupCount(t) ==
    IF DotInDecimalGroup(t) THEN HexRunCount(HeadOf(t)) + 2 ELSE HexRunCount(t)

\* the text ends with a ':' that is not part of a '::'
EndsOnBareColon(t) ==
    /\ Len(t) >= 1
    /\ t[Len(t)] = ChColon
    /\ (Len(t) = 1 \/ t[Len(t) - 1] # ChColon)

(***************************************************************************)
(* C3 (SpecIpv6): validate_ipv6_address succeeds on every text of exactly  *)
(* 8 groups of 1 to 4 hex digits, of either case, separated by single      *)
(* colons.                                                                 *)
(***************************************************************************)
C3_EightGroupsAccepted ==
    (result # Pending /\ IsEightHexGroups(text)) => result = Ok(None)

\* an accepted text whose last group has 4 digits, decimal and of both cases
C3_Witness ==
    /\ result = Ok(None)
    /\ IsEightHexGroups(text)
    /\ SplitAt(text, ChColon)[8] = <<49, 97, 70, 49>>

(***************************************************************************)
(* C4 (SpecIpv6): for every text read without error in which '::' has      *)
(* occurred, the text with a further '::' appended fails with              *)
(* TooManyDoubleColons, wherever that is.                                  *)
(***************************************************************************)
C4_SecondDoubleColonAlwaysTooMany ==
    (result = Pending /\ HasDoubleColon(text)) =>
        validate_ipv6_address(text \o <<ChColon, ChColon>>)
            = Err("TooManyDoubleColons")

(***************************************************************************)
(* C5 (SpecIpv6): in every state of the IPv6 scanner but an error,         *)
(* num_digits is at most 4 and, outside an IPv4 tail, is the number of hex *)
(* digits the text ends with; a text that ends with 5 hex digits has       *)
(* failed with TooManyDigits.                                              *)
(***************************************************************************)
C5_AtMostFourDigits ==
    /\ ipv6.state # "Error" => ipv6.num_digits <= 4
    /\ ipv6.state \notin {"Error", "InGroupIpv4"}
           => ipv6.num_digits = TrailingRun(text, HexDigits)
    /\ (ipv6.state # "InGroupIpv4" /\ TrailingRun(text, HexDigits) >= 5)
           => result = Err("TooManyDigits")

\* the fifth digit of a group entered after '::'
C5_Witness ==
    /\ result = Err("TooManyDigits")
    /\ TrailingRun(text, HexDigits) = 5
    /\ EndsWith(SubSeq(text, 1, Len(text) - 5), <<ChColon, ChColon>>)

(***************************************************************************)
(* C6, as claimed (SpecIpv6): when the scan ended without an error on a    *)
(* character and not on a bare colon, the outcome is the one the rule      *)
(* gives for ('::' seen, group count).                                     *)
(***************************************************************************)
C6_OutcomeByCountRule ==
    (result # Pending /\ ipv6.state # "Error" /\ ~EndsOnBareColon(text)) =>
        result = CountRule(HasDoubleColon(text), GroupCount(text))

(***************************************************************************)
(* C6, amended (SpecIpv6): the same, for a text that has no IPv4 tail or   *)
(* whose IPv4 tail is a valid IPv4 address.                                *)
(***************************************************************************)
C6_OutcomeByCountRuleValidTail ==
    (/\ result # Pending
     /\ ipv6.state # "Error"
     /\ ~EndsOnBareColon(text)
     /\ DotInDecimalGroup(text) => IsDottedQuad(TailOf(text))) =>
        result = CountRule(HasDoubleColon(text), GroupCount(text))

\* '::' and 8 groups, the last unterminated: too many
C6_Witness ==
    /\ result = Err("TooManyAddressParts")
    /\ ipv6.state = "InGroupNotIpv4"
    /\ HasDoubleColon(text)
    /\ GroupCount(text) = 8

(***************************************************************************)
(* C7 (SpecIpv6): a '.' met in a group of decimal digits stops the IPv6    *)
(* scan without an error; the text from the first character of that group  *)
(* to the end is validated by validate_ipv4_address, whose error is the    *)
(* result; on success the tail counts as 2 groups in the count rule.       *)
(***************************************************************************)
C7_Ipv4Tail ==
    DotInDecimalGroup(text) =>
        /\ ipv6.state = "InGroupIpv4"
        /\ ipv6.potential_ipv4_address_start + 1 = TailStart(text)
        /\ ipv6.num_groups = HexRunCount(HeadOf(text))
        /\ result # Pending =>
               IF validate_ipv4_address(TailOf(text)).status = "Err"
               THEN result = validate_ipv4_address(TailOf(text))
               ELSE result = CountRule(HasDoubleColon(HeadOf(text)),
                                       HexRunCount(HeadOf(text)) + 2)

\* 6 groups and a valid tail, accepted without '::'
C7_Witness ==
    /\ result = Ok(None)
    /\ DotInDecimalGroup(text)
    /\ ~HasDoubleColon(text)
    /\ HexRunCount(HeadOf(text)) = 6
    /\ IsDottedQuad(TailOf(text))

(***************************************************************************)
(* Authority texts.                                                        *)
(***************************************************************************)
\* the text before the first c, or the whole text
Before(t, c) == IF Contains(t, c) THEN SubSeq(t, 1, FirstIndex(t, c) - 1) ELSE t

\* the text after the first c, or the whole text
After(t, c) == IF Contains(t, c) THEN SubSeq(t, FirstIndex(t, c) + 1, Len(t)) ELSE t

AllIn(t, S) == \A i \in 1..Len(t) : t[i] \in S

AsciiLowercase(t) ==
    [i \in 1..Len(t) |-> IF t[i] \in 65..90 THEN t[i] + 32 ELSE t[i]]

HexValue(c) ==
    IF c \in 48..57 THEN c - 48 ELSE IF c \in 65..70 THEN c - 55 ELSE c - 87

\* the text with every %XX replaced by the byte XX
RECURSIVE PercentDecoded(_)
PercentDecoded(t) ==
    IF t = <<>> THEN <<>>
    ELSE IF t[1] = ChPercent /\ Len(t) >= 3 /\ t[2] \in HexDigits /\ t[3] \in HexDigits
    THEN <<16 * HexValue(t[2]) + HexValue(t[3])>>
             \o PercentDecoded(SubSeq(t, 4, Len(t)))
    ELSE <<t[1]>> \o PercentDecoded(Tail(t))

\* the text is U@H:P with U of userinfo characters, H of registered-name
\* characters and P a run of decimal digits of value at most 65535
IsUserHostPort(t) ==
    /\ Contains(t, ChAt)
    /\ AllIn(Before(t, ChAt), USER_INFO_NOT_PCT_ENCODED)
    /\ Contains(After(t, ChAt), ChColon)
    /\ AllIn(Before(After(t, ChAt), ChColon), REG_NAME_NOT_PCT_ENCODED)
    /\ IsDecimalRun(After(After(t, ChAt), ChColon))
    /\ DecimalValue(After(After(t, ChAt), ChColon)) <= 65535

(***************************************************************************)
(* C8 (SpecAuth): Authority::parse of U@H:P, with U of userinfo            *)
(* characters, H of registered-name characters and P a run of decimal      *)
(* digits of value at most 65535, succeeds with userinfo Some(U), host the *)
(* ASCII-lowercased H and port Some(value of P).                           *)
(***************************************************************************)
C8_UserHostPort ==
    (result # Pending /\ IsUserHostPort(text)) =>
        result = Ok(Some(
            [userinfo |-> Some(Before(text, ChAt)),
             host |-> AsciiLowercase(Before(After(text, ChAt), ChColon)),
             port |-> Some(DecimalValue(After(After(text, ChAt), ChColon)))]))

\* "U:@A:65": a ':' in the userinfo, an uppercase host, a port
C8_Witness ==
    /\ text = <<85, 58, 64, 65, 58, 54, 53>>
    /\ result = Ok(Some([userinfo |-> Some(<<85, 58>>), host |-> <<97>>,
                         port |-> Some(65)]))

(***************************************************************************)
(* C9 (SpecAuth): every successful parse of a host-port text that does not *)
(* begin with '[' returns a host without ASCII uppercase letters, equal to *)
(* the ASCII-lowercase of the percent-decoded text before the first ':'.   *)
(***************************************************************************)
C9_RegNameLowercased ==
    (/\ result.status = "Ok"
     /\ After(text, ChAt) = <<>> \/ After(text, ChAt)[1] # ChLBracket) =>
        /\ result.value[1].host =
               AsciiLowercase(PercentDecoded(Before(After(text, ChAt), ChColon)))
        /\ \A i \in 1..Len(result.value[1].host) :
               result.value[1].host[i] \notin 65..90

\* "A%41.": an uppercase letter and an escape of one
C9_Witness ==
    /\ text = <<65, 37, 52, 49, 46>>
    /\ result.status = "Ok"
    /\ result.value[1].host = <<97, 97, 46>>

(***************************************************************************)
(* C10 (SpecAuth): every successful parse of a host-port text that begins  *)
(* with '[' returns as host the text between the '[' and the first ']',    *)
(* byte for byte (the 'v' of an IPvFuture literal included), and never an  *)
(* empty host.                                                             *)
(***************************************************************************)
C10_IpLiteralVerbatim ==
    (/\ result.status = "Ok"
     /\ After(text, ChAt) # <<>>
     /\ After(text, ChAt)[1] = ChLBracket) =>
        /\ Contains(After(text, ChAt), ChRBracket)
        /\ result.value[1].host = SubSeq(After(text, ChAt), 2,
                                         FirstIndex(After(text, ChAt), ChRBracket) - 1)
        /\ result.value[1].host # <<>>

\* "[v1.F]": an IPvFuture literal with an uppercase letter
C10_Witness ==
    /\ text = <<91, 118, 49, 46, 70, 93>>
    /\ result.status = "Ok"
    /\ result.value[1].host = <<118, 49, 46, 70>>

(***************************************************************************)
(* The host-port text and its port.                                        *)
(***************************************************************************)
IsBracketed(hp) == hp # <<>> /\ hp[1] = ChLBracket

\* what follows the host: after the first ']' of a bracketed host, from the
\* first ':' of another
AfterHost(hp) ==
    IF IsBracketed(hp)
    THEN IF Contains(hp, ChRBracket) THEN After(hp, ChRBracket) ELSE <<>>
    ELSE IF Contains(hp, ChColon)
    THEN SubSeq(hp, FirstIndex(hp, ChColon), Len(hp))
    ELSE <<>>

HasPortDelimiter(hp) == AfterHost(hp) # <<>> /\ AfterHost(hp)[1] = ChColon

\* the text after the port delimiter, empty when there is none
PortText(hp) == IF HasPortDelimiter(hp) THEN Tail(AfterHost(hp)) ELSE <<>>

(***************************************************************************)
(* C11 (SpecAuth): when the host was scanned without error, the port is    *)
(* None if the text after the port delimiter is empty or there is no       *)
(* delimiter, Some(value) if that text is a run of decimal digits of value *)
(* at most 65535, and the parse fails with InvalidPortNumber if it is a    *)
(* run of decimal digits of a greater value.                               *)
(***************************************************************************)
C11_PortRule ==
    (result # Pending /\ auth.state \in {"NotIpLiteral", "GarbageCheck", "Port"}) =>
        /\ auth.state = "Port" <=> HasPortDelimiter(After(text, ChAt))
        /\ PortText(After(text, ChAt)) = <<>> =>
               result.status = "Ok" /\ result.value[1].port = None
        /\ (/\ IsDecimalRun(PortText(After(text, ChAt)))
            /\ DecimalValue(PortText(After(text, ChAt))) <= 65535) =>
               /\ result.status = "Ok"
               /\ result.value[1].port =
                      Some(DecimalValue(PortText(After(text, ChAt))))
        /\ (/\ IsDecimalRun(PortText(After(text, ChAt)))
            /\ DecimalValue(PortText(After(text, ChAt))) > 65535) =>
               result = Err("InvalidPortNumber")

\* "A:65536": one more than the greatest port
C11_Witness ==
    /\ text = <<65, 58, 54, 53, 53, 53, 54>>
    /\ result = Err("InvalidPortNumber")

\* the text of an IPvFuture literal between "[v" and the first ']'
IpvFutureText(hp) ==
    SubSeq(hp, 3, (IF Contains(hp, ChRBracket)
                   THEN FirstIndex(hp, ChRBracket) - 1 ELSE Len(hp)))

IsIpvFuture(hp) == Len(hp) >= 2 /\ hp[1] = ChLBracket /\ hp[2] = ChLowerV

(***************************************************************************)
(* C12 (SpecAuth): a host-port text that begins with "[v" is accepted only *)
(* if, between the "[v" and the ']', it has at least one hex digit, then   *)
(* '.', then at least one character of IPV_FUTURE_LAST_PART.               *)
(***************************************************************************)
C12_IpvFutureWellFormed ==
    (result.status = "Ok" /\ IsIpvFuture(After(text, ChAt))) =>
        /\ Contains(After(text, ChAt), ChRBracket)
        /\ Contains(IpvFutureText(After(text, ChAt)), ChDot)
        /\ Before(IpvFutureText(After(text, ChAt)), ChDot) # <<>>
        /\ AllIn(Before(IpvFutureText(After(text, ChAt)), ChDot), HexDigits)
        /\ After(IpvFutureText(After(text, ChAt)), ChDot) # <<>>
        /\ AllIn(After(IpvFutureText(After(text, ChAt)), ChDot),
                 IPV_FUTURE_LAST_PART)

\* the text between the '[' and the first ']' of an IPv6 literal
Ipv6Text(hp) == SubSeq(hp, 2, FirstIndex(hp, ChRBracket) - 1)

\* a bracketed host with its ']' that is an IPvFuture literal of the grammar
\* or an IPv6 literal validate_ipv6_address accepts
IsClosedIpLiteral(hp) ==
    /\ IsBracketed(hp)
    /\ Contains(hp, ChRBracket)
    /\ IF IsIpvFuture(hp)
       THEN /\ Contains(IpvFutureText(hp), ChDot)
            /\ Before(IpvFutureText(hp), ChDot) # <<>>
            /\ AllIn(Before(IpvFutureText(hp), ChDot), HexDigits)
            /\ After(IpvFutureText(hp), ChDot) # <<>>
            /\ AllIn(After(IpvFutureText(hp), ChDot), IPV_FUTURE_LAST_PART)
       ELSE validate_ipv6_address(Ipv6Text(hp)) = Ok(None)

(***************************************************************************)
(* C13 (SpecAuth): the character after the closing ']' of an IP literal is *)
(* ':' and starts the port, or the parse has failed with                   *)
(* InvalidCharacter(Host).                                                 *)
(***************************************************************************)
C13_AfterBracket ==
    (/\ IsClosedIpLiteral(After(text, ChAt))
     /\ AfterHost(After(text, ChAt)) # <<>>) =>
        IF AfterHost(After(text, ChAt))[1] = ChColon
        THEN /\ auth.state = "Port"
             /\ result.status = "Err" => result.error = "InvalidPortNumber"
        ELSE result = Err("InvalidCharacter(Host)")

\* "[::1]]": a second ']'
C13_Witness ==
    /\ text = <<91, 58, 58, 49, 93, 93>>
    /\ result = Err("InvalidCharacter(Host)")

\* a registered name of allowed characters and complete %XX escapes
RECURSIVE IsRegName(_)
IsRegName(t) ==
    IF t = <<>> THEN TRUE
    ELSE IF t[1] = ChPercent
    THEN /\ Len(t) >= 3
         /\ t[2] \in HexDigits
         /\ t[3] \in HexDigits
         /\ IsRegName(SubSeq(t, 4, Len(t)))
    ELSE t[1] \in REG_NAME_NOT_PCT_ENCODED /\ IsRegName(Tail(t))

\* a registered name followed by the beginning of an escape: "%" or "%X"
EndsInsideEscape(hp) ==
    \E n \in 1..2 :
        /\ Len(hp) >= n
        /\ hp[Len(hp) - n + 1] = ChPercent
        /\ n = 2 => hp[Len(hp)] \in HexDigits
        /\ IsRegName(SubSeq(hp, 1, Len(hp) - n))

\* an IPvFuture literal cut in its version or in its body
EndsInsideIpvFuture(hp) ==
    /\ IsIpvFuture(hp)
    /\ ~Contains(hp, ChRBracket)
    /\ AllIn(Before(IpvFutureText(hp), ChDot), HexDigits)
    /\ Contains(IpvFutureText(hp), ChDot) =>
           AllIn(After(IpvFutureText(hp), ChDot), IPV_FUTURE_LAST_PART)

\* a '[' that is not "[v", and no ']'
EndsInsideIpv6(hp) ==
    IsBracketed(hp) /\ ~IsIpvFuture(hp) /\ ~Contains(hp, ChRBracket)

(***************************************************************************)
(* C14 (SpecAuth): a text that ends inside a %XX escape of a registered    *)
(* name, inside an IPvFuture literal, or after a '[' (not "[v") with no    *)
(* ']', whatever follows the '[', fails with TruncatedHost.                *)
(***************************************************************************)
C14_TruncatedHost ==
    (/\ result # Pending
     /\ \/ (~IsBracketed(After(text, ChAt)) /\ EndsInsideEscape(After(text, ChAt)))
        \/ EndsInsideIpvFuture(After(text, ChAt))
        \/ EndsInsideIpv6(After(text, ChAt))) =>
        result = Err("TruncatedHost")

\* "[^^": characters no IPv6 literal has, and no ']'
C14_Witness ==
    /\ text = <<91, 94, 94>>
    /\ result = Err("TruncatedHost")

(***************************************************************************)
(* C15 (SpecDotted): Authority::parse("1.2.3.") fails with TruncatedHost.  *)
(***************************************************************************)
C15_DottedTruncated ==
    (result # Pending /\ text = <<49, 46, 50, 46, 51, 46>>) =>
        result = Err("TruncatedHost")

\* some '%' of the text is not followed by two hex digits
RECURSIVE HasBrokenEscape(_)
HasBrokenEscape(t) ==
    IF t = <<>> THEN FALSE
    ELSE IF t[1] = ChPercent
    THEN IF Len(t) >= 3 /\ t[2] \in HexDigits /\ t[3] \in HexDigits
         THEN HasBrokenEscape(SubSeq(t, 4, Len(t)))
         ELSE TRUE
    ELSE HasBrokenEscape(Tail(t))

(***************************************************************************)
(* C16 (SpecAuth): Authority::parse returns an error for every text in     *)
(* which a '%' of the userinfo, or of a registered-name host, is not       *)
(* followed by two hex digits.                                             *)
(***************************************************************************)
C16_BrokenEscapeRejected ==
    (/\ result # Pending
     /\ \/ Contains(text, ChAt) /\ HasBrokenEscape(Before(text, ChAt))
        \/ /\ ~IsBracketed(After(text, ChAt))
           /\ HasBrokenEscape(Before(After(text, ChAt), ChColon))) =>
        result.status = "Err"

(***************************************************************************)
(* C17, as claimed (SpecCodec): for every allowed set S and every byte     *)
(* sequence b whose bytes all map to characters of S,                      *)
(* decode_element(encode_element(b, S), S, ctx) = Ok(b).                   *)
(***************************************************************************)
C17_RoundTrip ==
    (codec.state = "Decoded" /\ AllIn(codec.element, codec.allowed_characters)) =>
        result = Ok(codec.element)

(***************************************************************************)
(* C17, amended (SpecCodec): the same, for every allowed set S that does   *)
(* not contain '%'.                                                        *)
(***************************************************************************)
C17_RoundTripNoPercent ==
    (/\ codec.state = "Decoded"
     /\ AllIn(codec.element, codec.allowed_characters)
     /\ ChPercent \notin codec.allowed_characters) =>
        result = Ok(codec.element)

\* a sequence with a byte above 127 that came back
C17_Witness ==
    /\ codec.state = "Decoded"
    /\ codec.element = <<233, 65, 52>>
    /\ codec.allowed_characters = {65, 52, 233}
    /\ result = Ok(<<233, 65, 52>>)

\* the host-port text without its port delimiter and port text
HostPart(hp) ==
    IF HasPortDelimiter(hp)
    THEN SubSeq(hp, 1, Len(hp) - Len(PortText(hp)) - 1)
    ELSE hp

\* the check of the userinfo alone, when the text has one
UserinfoCheck(t) ==
    IF Contains(t, ChAt)
    THEN decode_element(Before(t, ChAt), USER_INFO_NOT_PCT_ENCODED, "Userinfo")
    ELSE Ok(<<>>)

\* the check of the host alone
HostCheck(t) == parse_host_port(None, HostPart(After(t, ChAt)))

(***************************************************************************)
(* C18 (SpecAuthFn): parts are checked in the order userinfo, host, port.  *)
(* When the check of the userinfo fails, its error is the result whatever  *)
(* follows the '@'; otherwise, when the check of the host fails, the       *)
(* result is an error that is not the port's; otherwise a port text that   *)
(* does not parse gives InvalidPortNumber; and a result that is an error   *)
(* carries no Authority value.                                             *)
(***************************************************************************)
C18_FailFast ==
    result # Pending =>
        /\ UserinfoCheck(text).status = "Err" => result = UserinfoCheck(text)
        /\ (UserinfoCheck(text).status = "Ok" /\ HostCheck(text).status = "Err") =>
               result.status = "Err" /\ result.error # "InvalidPortNumber"
        /\ (/\ UserinfoCheck(text).status = "Ok"
            /\ HostCheck(text).status = "Ok"
            /\ PortText(After(text, ChAt)) # <<>>
            /\ ~IsDecimalRun(PortText(After(text, ChAt)))
            /\ PortText(After(text, ChAt))[1] # ChPlus) =>
               result = Err("InvalidPortNumber")
        /\ result.status = "Err" => result.value = None
        /\ (UserinfoCheck(text).status = "Ok" /\ HostCheck(text).status = "Ok"
            /\ PortText(After(text, ChAt)) = <<>>) => result.status = "Ok"

\* "^@^:^": every part is invalid, the userinfo's error is returned
C18_Witness ==
    /\ text = <<94, 64, 94, 58, 94>>
    /\ result = Err("InvalidCharacter(Userinfo)")

(***************************************************************************)
(* C19 (SpecTables): the initializer of each character-class table runs at *)
(* most once, whatever the number of membership tests and of threads.      *)
(***************************************************************************)
C19_TablesBuiltOnce ==
    \A table \in Tables : tables.initializations[table] <= 1

\* the number of '@' of a text
AtCount(t) == Cardinality({i \in 1..Len(t) : t[i] = ChAt})

\* a userinfo text of allowed characters and complete %XX escapes
RECURSIVE IsUserinfo(_)
IsUserinfo(t) ==
    IF t = <<>> THEN TRUE
    ELSE IF t[1] = ChPercent
    THEN /\ Len(t) >= 3
         /\ t[2] \in HexDigits
         /\ t[3] \in HexDigits
         /\ IsUserinfo(SubSeq(t, 4, Len(t)))
    ELSE t[1] \in USER_INFO_NOT_PCT_ENCODED /\ IsUserinfo(Tail(t))

(***************************************************************************)
(* C20 (SpecAuthFn): Authority::parse splits the text at its first '@'.    *)
(* A successful parse has a userinfo exactly when the text has an '@'; a   *)
(* well-formed text before the first '@' (possibly empty) gives userinfo   *)
(* Some(its percent-decoded bytes) and the rest of the outcome is that of  *)
(* the text after the first '@' parsed as host and port; a text without    *)
(* '@' is parsed as host and port with userinfo None; so a text with a     *)
(* second '@' fails in its host-port text.                                 *)
(***************************************************************************)
C20_SplitAtFirstAt ==
    result # Pending =>
        /\ result.status = "Ok" =>
               (result.value[1].userinfo # None <=> Contains(text, ChAt))
        /\ (Contains(text, ChAt) /\ IsUserinfo(Before(text, ChAt))) =>
               result = parse_host_port(
                            Some(PercentDecoded(Before(text, ChAt))),
                            After(text, ChAt))
        /\ ~Contains(text, ChAt) => result = parse_host_port(None, text)
        /\ (AtCount(text) >= 2 /\ IsUserinfo(Before(text, ChAt))) =>
               /\ result.status = "Err"
               /\ result.error # "InvalidCharacter(Userinfo)"

\* "U@4@4": the second '@' is a character of the host
C20_Witness ==
    /\ text = <<85, 64, 52, 64, 52>>
    /\ result = Err("InvalidCharacter(Host)")


(***************************************************************************)
(* PercentEncodedCharacterDecoder, one call of next after another on the   *)
(* same decoder; `text` is the characters given so far and `result` what   *)
(* the last call returned.                                                 *)
(***************************************************************************)
\* most calls of next on one decoder
MaxPecLen == 5

\* '4', 'a', 'F', 'g', and U+00E9
PecChars == {52, 97, 70, 103, 233}

PecInit ==
    /\ text = <<>>
    /\ ipv4 = Ipv4Idle
    /\ ipv6 = Ipv6Idle
    /\ auth = AuthIdle
    /\ result = Pending
    /\ codec = [state |-> "Pec", decoder |-> pec_new]
    /\ tables = TablesIdle
    /\ shared = SharedIdle

\* PercentEncodedCharacterDecoder::next(c)
PecNext ==
    /\ codec.state = "Pec"
    /\ Len(text) < MaxPecLen
    /\ \E c \in PecChars :
           /\ text' = Append(text, c)
           /\ codec' = [codec EXCEPT !.decoder = pec_next(codec.decoder, c).decoder]
           /\ result' = IF pec_next(codec.decoder, c).ok
                        THEN Ok(pec_next(codec.decoder, c).output)
                        ELSE Err("InvalidPercentEncoding")
    /\ UNCHANGED <<ipv4, ipv6, auth, tables, shared>>

SpecPec == PecInit /\ [][PecNext]_vars

\* the last character of a non-empty text
Last(t) == t[Len(t)]

\* the hex digits given since the decoder was last in its initial state: a
\* character that is no hex digit and every second digit of a run end one
PendingDigits(t) == TrailingRun(t, HexDigits) % 2

(***************************************************************************)
(* C21 (SpecPec): next returns no byte after the first hex digit and,      *)
(* after the second, the byte 16*h1 + h2, at most 255; between calls the   *)
(* decoder has 0 or 1 pending digit, and after a call that returned a byte *)
(* it is in its initial state (value 0, two digits expected).              *)
(***************************************************************************)
C21_DecoderPairs ==
    /\ codec.decoder.digits_left = 2 - PendingDigits(text)
    /\ codec.decoder.decoded_character \in 0..15
    /\ (text # <<>> /\ Last(text) \in HexDigits /\ PendingDigits(text) = 1) =>
           /\ result = Ok(None)
           /\ codec.decoder.decoded_character = HexValue(Last(text))
    /\ (text # <<>> /\ Last(text) \in HexDigits /\ PendingDigits(text) = 0) =>
           /\ result = Ok(Some(16 * HexValue(text[Len(text) - 1])
                                   + HexValue(Last(text))))
           /\ result.value[1] \in 0..255
    /\ (result.status = "Ok" /\ result.value # None) => codec.decoder = pec_new

\* "FFaF": 0xFF, the greatest byte, then a second byte from the same decoder
C21_Witness ==
    /\ text = <<70, 70, 97, 70>>
    /\ result = Ok(Some(175))
    /\ codec.decoder = pec_new

(***************************************************************************)
(* C22 (SpecPec): a character that is no hex digit, given as first or as   *)
(* second digit, makes next fail with InvalidPercentEncoding and leaves    *)
(* the decoder in its initial state: the two hex digits given next decode  *)
(* to their own byte, whatever digit was consumed before the failure.      *)
(***************************************************************************)
C22_NonHexResets ==
    /\ (text # <<>> /\ Last(text) \notin HexDigits) =>
           /\ result = Err("InvalidPercentEncoding")
           /\ codec.decoder = pec_new
    /\ (/\ Len(text) >= 3
        /\ text[Len(text) - 2] \notin HexDigits
        /\ text[Len(text) - 1] \in HexDigits
        /\ Last(text) \in HexDigits) =>
           result = Ok(Some(16 * HexValue(text[Len(text) - 1])
                                + HexValue(Last(text))))

\* "Fg4a": the failure comes as second digit, after an 'F' was consumed
C22_Witness ==
    /\ text = <<70, 103, 52, 97>>
    /\ result = Ok(Some(74))


(***************************************************************************)
(* decode_element applied to whole texts, with any allowed set and context.*)
(***************************************************************************)
\* longest text given to decode_element
MaxDecodeLen == 4

\* '%', '4', '0', 'A', '@'
DecodeChars == {37, 52, 48, 65, 64}

\* the sets of 'A', '4', '@'
DecodeSets == SUBSET {65, 52, 64}

DecodeContexts == {"Userinfo", "Host"}

DecodeInputs == UNION {[1..n -> DecodeChars] : n \in 0..MaxDecodeLen}

DecodeInit ==
    /\ text \in DecodeInputs
    /\ ipv4 = Ipv4Idle
    /\ ipv6 = Ipv6Idle
    /\ auth = AuthIdle
    /\ result = Pending
    /\ codec \in [state : {"Text"}, allowed_characters : DecodeSets,
                  context : DecodeContexts]
    /\ tables = TablesIdle
    /\ shared = SharedIdle

DecodeText ==
    /\ codec.state = "Text"
    /\ result' = decode_element(text, codec.allowed_characters, codec.context)
    /\ codec' = [codec EXCEPT !.state = "Decoded"]
    /\ UNCHANGED <<text, ipv4, ipv6, auth, tables, shared>>

SpecDecode == DecodeInit /\ [][DecodeText]_vars

\* a text of characters of S and complete %XX escapes
RECURSIVE IsElement(_, _)
IsElement(t, S) ==
    IF t = <<>> THEN TRUE
    ELSE IF t[1] = ChPercent
    THEN /\ Len(t) >= 3
         /\ t[2] \in HexDigits
         /\ t[3] \in HexDigits
         /\ IsElement(SubSeq(t, 4, Len(t)), S)
    ELSE t[1] \in S /\ IsElement(Tail(t), S)

\* position k holds the first character outside an escape that is neither
\* '%' nor in S, and all before it is well formed
FirstDisallowedAt(t, S, k) ==
    /\ k \in 1..Len(t)
    /\ IsElement(SubSeq(t, 1, k - 1), S)
    /\ t[k] \notin S \cup {ChPercent}

(***************************************************************************)
(* C23 (SpecDecode): decode_element checks against S only the characters   *)
(* outside escapes.  The first character outside an escape that is neither *)
(* '%' nor in S, after well-formed text, gives InvalidCharacter(ctx); on a *)
(* text whose characters outside escapes are all in S and whose escapes    *)
(* are complete, the result is the text with each %XX replaced by its      *)
(* byte, whether or not that byte's character is in S.                     *)
(***************************************************************************)
C23_OnlyLiteralsChecked ==
    codec.state = "Decoded" =>
        /\ (\E k \in 1..Len(text) :
                FirstDisallowedAt(text, codec.allowed_characters, k)) =>
               result = Err("InvalidCharacter(" \o codec.context \o ")")
        /\ IsElement(text, codec.allowed_characters) =>
               result = Ok(PercentDecoded(text))

\* "A%40" with S = {'A'}: the escape gives '@', which S does not have
C23_Witness ==
    /\ codec.state = "Decoded"
    /\ text = <<65, 37, 52, 48>>
    /\ codec.allowed_characters = {65}
    /\ result = Ok(<<65, 64>>)


\* "0123456789ABCDEF"
UpperHexDigits == <<48, 49, 50, 51, 52, 53, 54, 55, 56, 57, 65, 66, 67, 68, 69, 70>>

\* what a byte becomes: its character, or '%' and its two uppercase digits
Escaped(b, S) ==
    IF b \in S THEN <<b>>
    ELSE <<ChPercent, UpperHexDigits[(b \div 16) + 1], UpperHexDigits[(b % 16) + 1]>>

RECURSIVE EscapedAll(_, _)
EscapedAll(bytes, S) ==
    IF bytes = <<>> THEN <<>>
    ELSE Escaped(bytes[1], S) \o EscapedAll(Tail(bytes), S)

(***************************************************************************)
(* C24 (SpecCodec): encode_element emits, for each byte in order, the      *)
(* byte's character when it is in S and otherwise '%' followed by exactly  *)
(* two uppercase hex digits of its value; it returns for every input, and  *)
(* its output has only characters of S, '%', 0-9 and A-F.                  *)
(***************************************************************************)
C24_EncodeShape ==
    codec.state \in {"Encoded", "Decoded"} =>
        /\ text = EscapedAll(codec.element, codec.allowed_characters)
        /\ AllIn(text, codec.allowed_characters \cup {ChPercent}
                           \cup (48..57) \cup (65..70))
        /\ Len(text) = Len(codec.element)
               + 2 * Cardinality({i \in 1..Len(codec.element) :
                        codec.element[i] \notin codec.allowed_characters})

\* a byte below 16, a byte above 127 and an allowed byte: "%0A%E9A"
C24_Witness ==
    /\ codec.state = "Encoded"
    /\ codec.element = <<10, 233, 65>>
    /\ codec.allowed_characters = {65}
    /\ text = <<37, 48, 65, 37, 69, 57, 65>>


(***************************************************************************)
(* C25 (SpecIpv6): in every state of the IPv6 scan, a character outside    *)
(* 0-9, a-f, A-F, ':' and '.' makes the scan fail with                     *)
(* InvalidCharacter(Ipv6Address) and nothing else.                         *)
(***************************************************************************)
C25_InvalidCharacterAlways ==
    (/\ ipv6.state = "Error"
     /\ Last(text) \notin HexDigits \cup {ChColon, ChDot}) =>
        result = Err("InvalidCharacter(Ipv6Address)")


(***************************************************************************)
(* C26 (SpecIpv6): a text read without error that ends on a bare single    *)
(* colon, the lone ":" or a ':' directly after a group, fails with         *)
(* TruncatedHost, whatever the number of groups and whether or not '::'    *)
(* occurred earlier.                                                       *)
(***************************************************************************)
C26_BareColonTruncated ==
    (/\ result # Pending
     /\ ipv6.state \notin {"Error", "InGroupIpv4"}
     /\ EndsOnBareColon(text)) =>
        result = Err("TruncatedHost")

\* eight groups, each closed by its ':', and no '::'
C26_Witness ==
    /\ result = Err("TruncatedHost")
    /\ EndsOnBareColon(text)
    /\ ~HasDoubleColon(text)
    /\ HexRunCount(text) = 8


\* the text ends with a '.' directly after an octet, all its groups being
\* decimal runs of value at most 255, and at most 4 of them
EndsAfterOctet(t) ==
    /\ t # <<>>
    /\ Last(t) = ChDot
    /\ AllDecimalRuns(SplitAt(SubSeq(t, 1, Len(t) - 1), ChDot))
    /\ ~SomeAbove255(SplitAt(SubSeq(t, 1, Len(t) - 1), ChDot))
    /\ Len(SplitAt(SubSeq(t, 1, Len(t) - 1), ChDot)) <= 4

(***************************************************************************)
(* C27 (SpecIpv4): the scan is in NotInOctet, without an earlier error,    *)
(* exactly on the empty text and on a text that ends with '.' directly     *)
(* after a valid octet, with up to 4 groups closed; validate_ipv4_address  *)
(* then fails with TruncatedHost.                                          *)
(***************************************************************************)
C27_BareDotTruncated ==
    /\ ipv4.state = "NotInOctet" <=> (text = <<>> \/ EndsAfterOctet(text))
    /\ (result # Pending /\ (text = <<>> \/ EndsAfterOctet(text))) =>
           result = Err("TruncatedHost")

\* four groups closed, the last by a '.' that ends the text
C27_Witness ==
    /\ result = Err("TruncatedHost")
    /\ EndsAfterOctet(text)
    /\ Len(SplitAt(SubSeq(text, 1, Len(text) - 1), ChDot)) = 4


\* the text has a character outside ASCII
HasNonAscii(t) == \E i \in 1..Len(t) : t[i] > 127

(***************************************************************************)
(* C28 (SpecAuthFn): Authority::parse is total.  For every text, with      *)
(* characters outside ASCII, empty, with unbalanced brackets or with an    *)
(* IPv4 tail, it returns an Authority or a typed error and never panics:   *)
(* no conversion of a character to a byte and no slice of the text, at     *)
(* '@', after "[v" or at potential_ipv4_address_start, fails.              *)
(***************************************************************************)
C28_ParseTotal ==
    result # Pending =>
        /\ result.status \in {"Ok", "Err"}
        /\ result.error # "panic"
        /\ result.status = "Ok" =>
               /\ result.value # None
               /\ \A i \in 1..Len(result.value[1].host) :
                      result.value[1].host[i] \in 0..255
        /\ result.status = "Err" =>
               result.error \in
                   {"InvalidCharacter(Userinfo)", "InvalidCharacter(Host)",
                    "InvalidCharacter(Ipv4Address)", "InvalidCharacter(Ipv6Address)",
                    "InvalidCharacter(IpvFuture)", "InvalidPercentEncoding",
                    "TooFewAddressParts", "TooManyAddressParts", "TruncatedHost",
                    "InvalidDecimalOctet", "InvalidPortNumber",
                    "TooManyDoubleColons", "TooManyDigits"}

\* "[4.λ]": the slice at potential_ipv4_address_start is taken of a text
\* with a two-byte character, which the IPv4 validator then rejects
C28_Witness ==
    /\ text = <<91, 52, 46, 955, 93>>
    /\ result = Err("InvalidCharacter(Ipv4Address)")


(***************************************************************************)
(* observer/shared.rs: Shared, SharedReadLock and WeakReadLock, the        *)
(* handles to one Arc<RwLock<T>>.  A handle belongs to no thread in        *)
(* particular (all are Send); a thread that calls a function taking the    *)
(* handle by value holds it until the function returns.  The functions     *)
(* that test the two reference counts read them one after the other, and   *)
(* other threads run in between.                                           *)
(***************************************************************************)
\* most handles to the Arc, of all kinds
MaxHandles == 5

\* faulty variant: a Shared is not counted
Mut_strong_count_without_shared(s) ==
    s.read_locks + s.arcs + Cardinality({t \in Threads : s.pc[t] # "idle"})

\* Arc::strong_count: every Shared, SharedReadLock and Arc<RwLock<T>>, those
\* held by a call in progress included
strong_count(s) ==
    s.shareds + s.read_locks + s.arcs
        + Cardinality({t \in Threads : s.pc[t] # "idle"})

\* Arc::weak_count
weak_count(s) == s.weak_locks

\* Shared::new(data)
SharedInit ==
    /\ text = <<>>
    /\ ipv4 = Ipv4Idle
    /\ ipv6 = Ipv6Idle
    /\ auth = AuthIdle
    /\ result = Pending
    /\ codec = CodecIdle
    /\ tables = TablesIdle
    /\ shared = [state |-> "Run", shareds |-> 1, read_locks |-> 0,
                 weak_locks |-> 0, arcs |-> 0,
                 pc |-> [t \in Threads |-> "idle"], returned_ok |-> FALSE]

\* a step of the handles; returned_ok holds in the state a call returned Ok in
SharedStep(next) ==
    /\ shared.state = "Run"
    /\ shared' = next
    /\ UNCHANGED <<text, ipv4, ipv6, auth, result, codec, tables>>

CanAddHandle == strong_count(shared) + weak_count(shared) < MaxHandles

\* Shared::get_read_lock
GetReadLock ==
    /\ shared.shareds >= 1
    /\ CanAddHandle
    /\ SharedStep([shared EXCEPT !.read_locks = @ + 1, !.returned_ok = FALSE])

\* SharedReadLock::clone
ReadLockClone ==
    /\ shared.read_locks >= 1
    /\ CanAddHandle
    /\ SharedStep([shared EXCEPT !.read_locks = @ + 1, !.returned_ok = FALSE])

\* SharedReadLock::downgrade
ReadLockDowngrade ==
    /\ shared.read_locks >= 1
    /\ CanAddHandle
    /\ SharedStep([shared EXCEPT !.weak_locks = @ + 1, !.returned_ok = FALSE])

\* WeakReadLock::clone
WeakLockClone ==
    /\ shared.weak_locks >= 1
    /\ CanAddHandle
    /\ SharedStep([shared EXCEPT !.weak_locks = @ + 1, !.returned_ok = FALSE])

\* WeakReadLock::upgrade: None once the value was dropped
WeakLockUpgrade ==
    /\ shared.weak_locks >= 1
    /\ CanAddHandle
    /\ SharedStep(IF strong_count(shared) >= 1
                  THEN [shared EXCEPT !.read_locks = @ + 1, !.returned_ok = FALSE]
                  ELSE [shared EXCEPT !.returned_ok = FALSE])

\* Shared::into_inner
SharedIntoInner ==
    /\ shared.shareds >= 1
    /\ SharedStep([shared EXCEPT !.shareds = @ - 1, !.arcs = @ + 1,
                                 !.returned_ok = FALSE])

\* a handle of a kind is dropped
HandleDrop ==
    \E kind \in {"shareds", "read_locks", "weak_locks", "arcs"} :
        /\ shared[kind] >= 1
        /\ SharedStep([shared EXCEPT ![kind] = @ - 1, !.returned_ok = FALSE])

\* the handle a function takes by value, and the one its Ok holds
TakenBy(function) == IF function = "try_from_inner" THEN "arcs" ELSE "read_locks"
GivenBy(function) == IF function = "try_into_inner" THEN "arcs" ELSE "shareds"

\* SharedReadLock::try_upgrade, SharedReadLock::try_into_inner and
\* Shared::try_from_inner, the left operand of `&&`: Arc::strong_count == 1;
\* when it is false the function returns Err with the handle
TryStrongCount(t, function) ==
    /\ shared.pc[t] = "idle"
    /\ shared[TakenBy(function)] >= 1
    /\ SharedStep(IF strong_count(shared) = 1
                  THEN [shared EXCEPT ![TakenBy(function)] = @ - 1,
                                      !.pc[t] = function, !.returned_ok = FALSE]
                  ELSE [shared EXCEPT !.returned_ok = FALSE])

\* the right operand: Arc::weak_count == 0, and the function returns
TryWeakCount(t) ==
    /\ shared.pc[t] # "idle"
    /\ SharedStep(IF weak_count(shared) = 0
                  THEN [shared EXCEPT ![GivenBy(shared.pc[t])] = @ + 1,
                                      !.pc[t] = "idle", !.returned_ok = TRUE]
                  ELSE [shared EXCEPT ![TakenBy(shared.pc[t])] = @ + 1,
                                      !.pc[t] = "idle", !.returned_ok = FALSE])

SharedNext ==
    \/ GetReadLock
    \/ ReadLockClone
    \/ ReadLockDowngrade
    \/ WeakLockClone
    \/ WeakLockUpgrade
    \/ SharedIntoInner
    \/ HandleDrop
    \/ \E t \in Threads :
           \/ \E function \in {"try_upgrade", "try_into_inner", "try_from_inner"} :
                  TryStrongCount(t, function)
           \/ TryWeakCount(t)

SpecShared == SharedInit /\ [][SharedNext]_vars

(***************************************************************************)
(* C29 (SpecShared): try_upgrade, try_into_inner and try_from_inner return *)
(* Ok only if there is no other reference, strong or weak: in the state    *)
(* in which one of them returned Ok, the handle it returned is the only    *)
(* one, whatever other threads did meanwhile.                              *)
(***************************************************************************)
C29_OkOnlyWhenSole ==
    (shared.state = "Run" /\ shared.returned_ok) =>
        /\ strong_count(shared) = 1
        /\ weak_count(shared) = 0

(***************************************************************************)
(* C30 (SpecShared): at most one Shared exists for the inner RwLock, in    *)
(* every state and under every interleaving.                               *)
(***************************************************************************)
C30_AtMostOneShared ==
    shared.state = "Run" => shared.shareds <= 1

\* a Shared obtained by try_upgrade, after the first one was dropped
C30_Witness ==
    /\ shared.state = "Run"
    /\ shared.returned_ok
    /\ shared.shareds = 1
    /\ shared.read_locks = 0


\* the first k groups of a dotted text are decimal runs of value at most 255
FirstInRange(groups, k) ==
    \A i \in 1..k : IsDecimalRun(groups[i]) /\ DecimalValue(groups[i]) <= 255

(***************************************************************************)
(* C34 (SpecIpv4Fn): a '.' that closes an octet applies the 0-255 check    *)
(* before the group-count check.  When the first out-of-range octet closed *)
(* by a '.' is at most the fifth group, the result is InvalidDecimalOctet, *)
(* also when four groups were closed before it; TooManyAddressParts comes  *)
(* at a '.' only when the fifth group closed is in range.                  *)
(***************************************************************************)
C34_OctetCheckFirst ==
    LET groups == SplitAt(text, ChDot)
    IN  (result # Pending /\ AllDecimalRuns(groups)) =>
            /\ (\E k \in 1..(Len(groups) - 1) :
                    /\ k <= 5
                    /\ DecimalValue(groups[k]) > 255
                    /\ FirstInRange(groups, k - 1)) =>
                   result = Err("InvalidDecimalOctet")
            /\ (Len(groups) >= 6 /\ FirstInRange(groups, 5)) =>
                   result = Err("TooManyAddressParts")


(***************************************************************************)
(* C35 (SpecIpv4): in every non-error state of the IPv4 scan num_groups    *)
(* lies in 0..4 and is the number of '.' read so far; the octet buffer is  *)
(* empty in NotInOctet and is the non-empty run of decimal digits read     *)
(* since the last '.' in ExpectDigitOrDot.                                 *)
(***************************************************************************)
C35_ScannerShape ==
    LET groups == SplitAt(text, ChDot)
    IN  ipv4.state \in {"NotInOctet", "ExpectDigitOrDot"} =>
            /\ ipv4.num_groups \in 0..4
            /\ ipv4.num_groups = Len(groups) - 1
            /\ ipv4.state = "NotInOctet" => ipv4.octet_buffer = <<>>
            /\ ipv4.state = "ExpectDigitOrDot" =>
                   /\ ipv4.octet_buffer # <<>>
                   /\ IsDecimalRun(ipv4.octet_buffer)
                   /\ ipv4.octet_buffer = groups[Len(groups)]

\* four octets closed by a '.', and a fifth begun
C35_Witness ==
    /\ ipv4.state = "ExpectDigitOrDot"
    /\ ipv4.num_groups = 4
    /\ Len(ipv4.octet_buffer) = 2


(***************************************************************************)
(* C36 (SpecAuth): every port text that holds a character other than an    *)
(* ASCII decimal digit (a second ':', a sign, a letter) makes the whole    *)
(* parse fail with InvalidPortNumber.                                      *)
(***************************************************************************)
C36_NonDigitPortFails ==
    (/\ result # Pending
     /\ auth.state = "Port"
     /\ ~IsDecimalRun(PortText(After(text, ChAt)))
     /\ PortText(After(text, ChAt)) # <<>>) =>
        result = Err("InvalidPortNumber")


(***************************************************************************)
(* C37 (SpecAuth): once in the Port state the scan stays there for the     *)
(* rest of the text: every further character, of any kind, is appended to  *)
(* the port text with no error before the end of the input, and the host   *)
(* collected up to the delimiter is left as it was.                        *)
(***************************************************************************)
C37_PortAbsorbs ==
    [][auth.state = "Port" =>
           /\ auth'.state = "Port"
           /\ auth'.host = auth.host
           /\ auth'.host_is_reg_name = auth.host_is_reg_name
           /\ auth'.port_string =
                  IF text' = text THEN auth.port_string
                  ELSE Append(auth.port_string, Last(text'))
           /\ text' # text => result' = Pending]_vars

\* a port text with a sign and a second ':' behind a host, still being read
C37_Witness ==
    /\ auth.state = "Port"
    /\ result = Pending
    /\ auth.host # <<>>
    /\ Len(auth.port_string) >= 3
    /\ Contains(auth.port_string, ChColon)
    /\ Contains(auth.port_string, ChPlus)


(***************************************************************************)
(* C38 (SpecDotted): for a host-port text that does not begin with '['     *)
(* Authority::parse never applies the IPv4 validator: a host of decimal    *)
(* digits and dots is accepted as a registered name whatever its octet     *)
(* values and group count, the host being the text ("256.0.0.0", "1.2.3"). *)
(***************************************************************************)
C38_DottedIsRegName ==
    (/\ result # Pending
     /\ text # <<>>
     /\ AllIn(text, DecimalDigits \cup {ChDot})) =>
        result = Ok(Some([userinfo |-> None, host |-> text, port |-> None]))

\* four groups with an octet above 255, and three groups, both parsed
C38_Witness ==
    /\ result # Pending
    /\ \/ text = <<50, 53, 54, 46, 48, 46, 48, 46, 48>>
       \/ text = <<49, 46, 50, 46, 51>>
    /\ validate_ipv4_address(text).status = "Err"
    /\ result.status = "Ok"


(***************************************************************************)
(* C39 (SpecIpv6): the IPv6 scan accepts a '.' only in InGroupCouldBeIpv4, *)
(* that is while the current group is a non-empty run of decimal digits;   *)
(* read in any other state it fails with InvalidCharacter(Ipv6Address).    *)
(* And in InGroupCouldBeIpv4 potential_ipv4_address_start is the index of  *)
(* the first character of the current group, whichever state the group was *)
(* entered from.                                                           *)
(***************************************************************************)
C39_DotOnlyInDecimalGroup ==
    /\ (/\ Contains(text, ChDot)
        /\ FirstIndex(text, ChDot) = Len(text)) =>
           IF DotInDecimalGroup(text)
           THEN ipv6.state = "InGroupIpv4"
           ELSE /\ ipv6.state = "Error"
                /\ result = Err("InvalidCharacter(Ipv6Address)")
    /\ ipv6.state = "InGroupIpv4" => DotInDecimalGroup(text)
    /\ ipv6.state = "InGroupCouldBeIpv4" =>
           /\ TrailingRun(text, HexDigits) >= 1
           /\ TrailingRun(text, DecimalDigits) = TrailingRun(text, HexDigits)
           /\ ipv6.potential_ipv4_address_start =
                  Len(text) - TrailingRun(text, HexDigits)

\* a decimal group of two digits begun after a '::' that follows a group
C39_Witness ==
    /\ ipv6.state = "InGroupCouldBeIpv4"
    /\ ipv6.double_colon_encountered
    /\ ipv6.num_groups >= 1
    /\ ipv6.num_digits = 2
    /\ ipv6.potential_ipv4_address_start >= 3


(***************************************************************************)
(* C40 (SpecCodec): decode_element inverts encode_element on arbitrary     *)
(* bytes.  For every byte sequence b, bytes outside S, the byte of '%' and *)
(* bytes above 127 included, and every set S of ASCII characters without   *)
(* '%', decode_element(encode_element(b, S), S, ctx) = Ok(b).              *)
(***************************************************************************)
C40_DecodeInvertsEncode ==
    (/\ codec.state = "Decoded"
     /\ codec.allowed_characters \subseteq 0..127
     /\ ChPercent \notin codec.allowed_characters) =>
        result = Ok(codec.element)

\* '%', a byte above 127 and a byte below 16, none in S, escaped and back
C40_Witness ==
    /\ codec.state = "Decoded"
    /\ codec.element = <<37, 233, 10>>
    /\ codec.allowed_characters = {65}
    /\ Len(text) = 9
    /\ result = Ok(<<37, 233, 10>>)


(***************************************************************************)
(* observer/shared.rs: SharedObservable, WeakObservable and the            *)
(* subscribers of one observable state.  A SharedObservable holds a strong *)
(* reference to the state and one to _num_clones; clone, drop, upgrade and *)
(* subscriber_count touch the two counts one after the other, and other    *)
(* threads run in between.  A handle belongs to no thread in particular; a *)
(* thread that calls a function on &self borrows a handle until the call   *)
(* returns, and a handle can be dropped only while it is not borrowed.     *)
(***************************************************************************)
\* most SharedObservable handles alive or in creation
MaxObservables == 3
\* most subscribers
MaxSubscribers == 1
\* most WeakObservable handles
MaxWeakObservables == 1

\* threads between state.clone() / Weak::upgrade(&state) and the second field
InCreation(s) ==
    Cardinality({t \in Threads :
        s.pc[t] \in {"clone_num_clones", "upgrade_num_clones"}})

\* threads inside a call on &self
Borrowers(s) ==
    {t \in Threads : s.pc[t] \in {"clone_num_clones", "writing", "count_observable"}}

\* some handle can be borrowed; some handle can be moved into drop
CanBorrow(s) == s.observables >= 1
CanMove(s) == s.observables >= 2 \/ (s.observables = 1 /\ Borrowers(s) = {})

\* SharedObservable::new(value)
ObservableInit ==
    /\ text = <<>>
    /\ ipv4 = Ipv4Idle
    /\ ipv6 = Ipv6Idle
    /\ auth = AuthIdle
    /\ result = Pending
    /\ codec = CodecIdle
    /\ tables = TablesIdle
    /\ shared = [state |-> "Observable", observables |-> 1,
                 state_strong |-> 1, num_clones_strong |-> 1,
                 weak_observables |-> 0, subscribers |-> 0,
                 closed |-> FALSE, writer |-> 0, panicked |-> FALSE,
                 pc |-> [t \in Threads |-> "idle"],
                 strong_read |-> [t \in Threads |-> 0],
                 most |-> [t \in Threads |-> 0],
                 count_returned |-> None]

\* a step of the observable.  count_returned holds in the state in which
\* subscriber_count returned; most[t] is the greatest number of subscribers
\* and handles in creation seen while thread t is inside subscriber_count
ObservableStep(next) ==
    /\ shared.state = "Observable"
    /\ shared' =
           [next EXCEPT !.most =
               [t \in Threads |->
                   IF next.pc[t] # "count_observable" THEN 0
                   ELSE IF shared.most[t] > next.subscribers + InCreation(next)
                   THEN shared.most[t]
                   ELSE next.subscribers + InCreation(next)]]
    /\ UNCHANGED <<text, ipv4, ipv6, auth, result, codec, tables>>

\* SharedObservable::subscribe: state.read(), then Arc::clone(&self.state)
Subscribe ==
    /\ CanBorrow(shared)
    /\ shared.writer = 0
    /\ shared.subscribers < MaxSubscribers
    /\ ObservableStep([shared EXCEPT !.subscribers = @ + 1,
                                     !.state_strong = @ + 1,
                                     !.count_returned = None])

\* drop of a Subscriber
SubscriberDrop ==
    /\ shared.subscribers >= 1
    /\ ObservableStep([shared EXCEPT !.subscribers = @ - 1,
                                     !.state_strong = @ - 1,
                                     !.count_returned = None])

\* SharedObservable::downgrade
Downgrade ==
    /\ CanBorrow(shared)
    /\ shared.weak_observables < MaxWeakObservables
    /\ ObservableStep([shared EXCEPT !.weak_observables = @ + 1,
                                     !.count_returned = None])

\* Clone for SharedObservable, first field: self.state.clone()
CloneState(t) ==
    /\ shared.pc[t] = "idle"
    /\ CanBorrow(shared)
    /\ shared.num_clones_strong + InCreation(shared) < MaxObservables
    /\ ObservableStep([shared EXCEPT !.state_strong = @ + 1,
                                     !.pc[t] = "clone_num_clones",
                                     !.count_returned = None])

\* Clone for SharedObservable, second field: self._num_clones.clone()
CloneNumClones(t) ==
    /\ shared.pc[t] = "clone_num_clones"
    /\ ObservableStep([shared EXCEPT !.num_clones_strong = @ + 1,
                                     !.observables = @ + 1,
                                     !.pc[t] = "idle",
                                     !.count_returned = None])

\* WeakObservable::upgrade, first line: Weak::upgrade(&self.state)?
UpgradeState(t) ==
    /\ shared.pc[t] = "idle"
    /\ shared.weak_observables >= 1
    /\ shared.num_clones_strong + InCreation(shared) < MaxObservables
    /\ ObservableStep(IF shared.state_strong = 0
                      THEN [shared EXCEPT !.count_returned = None]
                      ELSE [shared EXCEPT !.state_strong = @ + 1,
                                          !.pc[t] = "upgrade_num_clones",
                                          !.count_returned = None])

\* WeakObservable::upgrade, second line: Weak::upgrade(&self._num_clones)?;
\* on None the state reference just taken is dropped
UpgradeNumClones(t) ==
    /\ shared.pc[t] = "upgrade_num_clones"
    /\ ObservableStep(IF shared.num_clones_strong = 0
                      THEN [shared EXCEPT !.state_strong = @ - 1,
                                          !.pc[t] = "idle",
                                          !.count_returned = None]
                      ELSE [shared EXCEPT !.num_clones_strong = @ + 1,
                                          !.observables = @ + 1,
                                          !.pc[t] = "idle",
                                          !.count_returned = None])

\* SharedObservable::write, set, update: self.state.write().unwrap()
WriteLock(t) ==
    /\ shared.pc[t] = "idle"
    /\ CanBorrow(shared)
    /\ shared.writer = 0
    /\ ObservableStep([shared EXCEPT !.writer = t, !.pc[t] = "writing",
                                     !.count_returned = None])

\* drop of the write guard
WriteUnlock(t) ==
    /\ shared.pc[t] = "writing"
    /\ ObservableStep([shared EXCEPT !.writer = 0, !.pc[t] = "idle",
                                     !.count_returned = None])

\* Drop for SharedObservable: Arc::strong_count(&self._num_clones) == 1
DropCount(t) ==
    /\ shared.pc[t] = "idle"
    /\ CanMove(shared)
    /\ ObservableStep([shared EXCEPT !.observables = @ - 1,
                                     !.pc[t] = IF shared.num_clones_strong = 1
                                               THEN "drop_close"
                                               ELSE "drop_state",
                                     !.count_returned = None])

\* SyncLock::read_noblock: lock.try_read().unwrap(); try_read fails while
\* the lock is held for writing
read_noblock(s) == IF s.writer # 0 THEN Err("panic") ELSE Ok(None)

\* Drop for SharedObservable: L::read_noblock(&self.state).close(); the
\* fields are dropped also when the body panics
DropClose(t) ==
    /\ shared.pc[t] = "drop_close"
    /\ ObservableStep(IF read_noblock(shared).status = "Err"
                      THEN [shared EXCEPT !.panicked = TRUE,
                                          !.pc[t] = "drop_state",
                                          !.count_returned = None]
                      ELSE [shared EXCEPT !.closed = TRUE,
                                          !.pc[t] = "drop_state",
                                          !.count_returned = None])

\* after the body of drop the fields go in declaration order: state
DropState(t) ==
    /\ shared.pc[t] = "drop_state"
    /\ ObservableStep([shared EXCEPT !.state_strong = @ - 1,
                                     !.pc[t] = "drop_num_clones",
                                     !.count_returned = None])

\* then _num_clones
DropNumClones(t) ==
    /\ shared.pc[t] = "drop_num_clones"
    /\ ObservableStep([shared EXCEPT !.num_clones_strong = @ - 1,
                                     !.pc[t] = "idle",
                                     !.count_returned = None])

\* SharedObservable::subscriber_count, left operand: self.strong_count()
CountStrong(t) ==
    /\ shared.pc[t] = "idle"
    /\ CanBorrow(shared)
    /\ ObservableStep([shared EXCEPT !.strong_read[t] = shared.state_strong,
                                     !.pc[t] = "count_observable",
                                     !.count_returned = None])

\* usize subtraction.  Below zero the build with overflow checks panics and
\* the build without wraps; the wrapped result 2^64 - k is kept as k
usize_sub(a, b, overflow_checks) ==
    IF a >= b THEN [underflow |-> FALSE, panic |-> FALSE, value |-> a - b]
    ELSE [underflow |-> TRUE, panic |-> overflow_checks, value |-> b - a]

\* SharedObservable::subscriber_count, right operand: self.observable_count(),
\* the subtraction, and the return
CountObservable(t) ==
    /\ shared.pc[t] = "count_observable"
    /\ \E overflow_checks \in BOOLEAN :
           ObservableStep(
               [shared EXCEPT
                   !.count_returned =
                       Some([returned |-> usize_sub(shared.strong_read[t],
                                                    shared.num_clones_strong,
                                                    overflow_checks),
                             most |-> shared.most[t]]),
                   !.strong_read[t] = 0,
                   !.pc[t] = "idle"])

ObservableNext ==
    \/ Subscribe
    \/ SubscriberDrop
    \/ Downgrade
    \/ \E t \in Threads :
           \/ CloneState(t)
           \/ CloneNumClones(t)
           \/ UpgradeState(t)
           \/ UpgradeNumClones(t)
           \/ WriteLock(t)
           \/ WriteUnlock(t)
           \/ DropCount(t)
           \/ DropClose(t)
           \/ DropState(t)
           \/ DropNumClones(t)
           \/ CountStrong(t)
           \/ CountObservable(t)

SpecObservable == ObservableInit /\ [][ObservableNext]_vars

\* a state with nothing in progress
Quiet == \A t \in Threads : shared.pc[t] = "idle"


(***************************************************************************)
(* C31 (SpecObservable): the state is closed when the last SharedObservable *)
(* clone goes away.  In every execution, concurrent drops on different     *)
(* threads included, once no SharedObservable of the state is left (none   *)
(* alive, none in creation, none still being dropped) close() has been     *)
(* called on the state.                                                    *)
(***************************************************************************)
C31_ClosedWhenLastGone ==
    (/\ shared.state = "Observable"
     /\ shared.num_clones_strong = 0
     /\ shared.observables = 0
     /\ Quiet) =>
        shared.closed

(***************************************************************************)
(* C32 (SpecObservable): dropping a SharedObservable closes the state only *)
(* if there is no other clone, and then taking the read lock cannot fail:  *)
(* under every interleaving with WeakObservable::upgrade and with writes   *)
(* through other handles the state is never closed while a SharedObservable *)
(* of it is alive, and the try_read().unwrap() of read_noblock never       *)
(* panics.                                                                 *)
(***************************************************************************)
C32_ClosedOnlyWhenLast ==
    shared.state = "Observable" =>
        /\ shared.closed => shared.observables = 0
        /\ ~shared.panicked

(***************************************************************************)
(* C33 (SpecObservable): subscriber_count returns the number of            *)
(* subscribers.  With nothing in progress strong_count is observable_count *)
(* plus the subscribers; and whatever other threads clone or drop while    *)
(* the call runs, the subtraction strong_count() - observable_count() does *)
(* not go below zero and gives no more than the subscribers plus the       *)
(* handles in creation there were at some moment of the call.              *)
(***************************************************************************)
C33_SubscriberCount ==
    shared.state = "Observable" =>
        /\ Quiet => shared.state_strong =
                        shared.num_clones_strong + shared.subscribers
        /\ shared.count_returned # None =>
               /\ ~shared.count_returned[1].returned.underflow
               /\ shared.count_returned[1].returned.value <=
                      shared.count_returned[1].most

====
